---------------------------- MODULE Spec2Model ----------------------------
(***************************************************************************)
(* A model of PacketClaude, an AX.25 / telnet gateway to an LLM.           *)
(*                                                                         *)
(* The module holds several specifications over one set of variables, one  *)
(* per part of the program; a specification leaves the variables of the    *)
(* other parts at their idle value.                                        *)
(*                                                                         *)
(*   SpecFrame    AX25Address / AX25Frame  encode and decode               *)
(*                (src/src/packetclaude/ax25/protocol.py)                  *)
(*   SpecLink      AX.25 frames in, LLM replies out (main.py)              *)
(*   SpecYapp      YAPP upload over a connection (ax25/yapp.py)            *)
(*   SpecTelnet    telnet sockets and their reader threads                 *)
(*   SpecSession   conversation sessions (claude/session.py)               *)
(*   SpecRate      rate limiting over the queries table                    *)
(*   SpecYappMode  routing of data while in YAPP mode                      *)
(*   SpecDownload  YAPP download, packet by packet                         *)
(*   SpecSweep     the cleanup thread's inactivity sweep                   *)
(*   SpecKiss      KISS framing (ax25/kiss.py)                             *)
(*   SpecFiles     files and file_shares tables (database.py)              *)
(*   SpecStop      PacketClaude.stop and the threads around it             *)
(*   SpecRateSweep rate limiting with cleanup_old_data                     *)
(*   SpecGate      one telnet client before and after authentication       *)
(*   SpecCommands  the commands of a station over AX.25                    *)
(*   SpecFragment  replies cut into frames by _send_to_station             *)
(*   SpecRecovery  failures of the LLM call and of the error handler       *)
(*   SpecToolLoop  ClaudeClient.send_message and its tool rounds           *)
(*                 (claude/client.py); SpecToolLoopFair for liveness       *)
(*   SpecStrip     telnet commands in the byte stream, read by read        *)
(*   SpecLines     line buffering of the telnet receive loop               *)
(*   SpecKissStream  KISS frames read one after another off the socket     *)
(*   SpecIdentity  the identity of a telnet connection and its table key   *)
(*   SpecUpload    YAPP uploads and the checks of FileManager.upload_file  *)
(*   SpecShare     FileManager.share_file and set_file_public, repeated    *)
(*   SpecQuit      the disconnect the program starts, and the peer's UA    *)
(*   SpecIdle      a station that stays connected while time passes        *)
(*   SpecEnviron   a telnet client whose login name is no callsign         *)
(*   SpecPairing   on_connect and on_disconnect of the AX.25 peers         *)
(*   SpecRace      the threads inside TelnetServer._handle_disconnect      *)
(*   SpecHistory   the history of a session under its configured limit     *)
(***************************************************************************)
EXTENDS Integers, Sequences, FiniteSets, TLC

VARIABLES
    \* ---- SpecFrame: one frame pushed through encode and then decode.  The
    \* specifications of one function or of one client (SpecKiss, SpecToolLoop,
    \* SpecStrip, SpecLines, SpecKissStream, SpecHistory) hold their input, what
    \* is left of it and their result in the same four variables; SpecRace holds
    \* the positions of its threads in fpc and its counts in dec
    fpc,        \* "off" | "built" | "encoded" | "decoded"; the position of the caller
    fr,         \* the AX25Frame object built by a constructor; the input
    wire,       \* the bytes AX25Frame.encode returned; what is still to be read
    dec,        \* what AX25Frame.decode returned (a frame, or the error raised); the result
    \* ---- the running program
    running,      \* PacketClaude.running and TelnetServer.running
    connections,  \* AX25ConnectionHandler.connections: "CALL-SSID" -> AX25Connection
    transfers,    \* YAPPManager.transfers: remote address -> YAPPTransfer
    files,        \* the rows of the files table, in insertion order
    shares,       \* the rows of the file_shares table, in insertion order
    file_seq,     \* the largest id the files table has given out (AUTOINCREMENT)
    sessions,     \* SessionManager.sessions: key -> ConversationSession
    rows,         \* the rows of the queries table, oldest first
    turn,         \* per thread: the LLM call it is blocked in, or None
    tconn,        \* per telnet socket: its TelnetConnection object and its reader thread
    ttable,       \* TelnetServer.connections: key -> socket
    sent,         \* what the last step wrote: AX.25 frames to the TNC, bytes to telnet sockets
    fired,        \* the callbacks the last step fired, in order
    handled,      \* the input the last step handled (NoInput before the first)
    \* ---- a history variable
    log           \* SpecSession: every message added to the session since it was
                  \* created or cleared; SpecDownload: the download started and the
                  \* packets received and returned since, in order

frameVars == <<fpc, fr, wire, dec>>

progVars == <<running, connections, transfers, files, shares, file_seq, sessions, rows, turn,
              tconn, ttable,
              sent, fired, handled, log>>

vars == <<fpc, fr, wire, dec, running, connections, transfers, files, shares, file_seq,
          sessions, rows, turn,
          tconn, ttable, sent, fired, handled, log>>

(***************************************************************************)
(* Helpers on sequences and bytes                                          *)
(***************************************************************************)
None == "None"

\* None where the other values are objects; an absent text is the empty text
Null == [null |-> TRUE]

\* the value of `handled` after a step that handles no input
NoInput == [kind |-> "none"]

\* s[a..b] as Python slices it (1-based here, empty when out of range)
Slice(s, a, b) == IF b < a THEN <<>> ELSE SubSeq(s, a, IF b > Len(s) THEN Len(s) ELSE b)

Pow2(n) == 2 ^ n

\* (b >> k) & (2^m - 1)
Bits(b, k, m) == (b \div Pow2(k)) % Pow2(m)

(***************************************************************************)
(* Text is a sequence of character codes.                                  *)
(***************************************************************************)
Space == 32

\* str.upper() on ASCII
UpperChar(c) == IF c >= 97 /\ c <= 122 THEN c - 32 ELSE c

Upper(s) == [i \in 1..Len(s) |-> UpperChar(s[i])]

\* the characters str.strip() removes
IsWhite(c) == c \in {9, 10, 11, 12, 13, 28, 29, 30, 31, 32}

RECURSIVE LStrip(_)
LStrip(s) == IF s # <<>> /\ IsWhite(Head(s)) THEN LStrip(Tail(s)) ELSE s

RECURSIVE RStrip(_)
RStrip(s) == IF s # <<>> /\ IsWhite(s[Len(s)]) THEN RStrip(SubSeq(s, 1, Len(s) - 1)) ELSE s

Strip(s) == RStrip(LStrip(s))

\* s[:6].ljust(6)
LJust6(s) == [i \in 1..6 |-> IF i <= Len(s) THEN s[i] ELSE Space]

(***************************************************************************)
(* More text helpers: lower case, decimal numbers, the two regular         *)
(* expressions of main.py, newline translation and chunking                *)
(***************************************************************************)
LowerChar(c) == IF c >= 65 /\ c <= 90 THEN c + 32 ELSE c

Lower(s) == [i \in 1..Len(s) |-> LowerChar(s[i])]

IsDigit(c) == c >= 48 /\ c <= 57

\* [A-Z0-9]
IsUpperAlnum(c) == IsDigit(c) \/ (c >= 65 /\ c <= 90)

AllIn(s, a, b, P(_)) == \A i \in a..b : P(s[i])

\* str(n) of a natural number
RECURSIVE Str(_)
Str(n) == IF n < 10 THEN <<48 + n>> ELSE Str(n \div 10) \o <<48 + (n % 10)>>

\* re.match(r'^[A-Z0-9]{1,2}[0-9][A-Z0-9]{1,4}(-[0-9]{1,2})?$', s)
MatchCallsign(s) ==
    \E p \in 1..2, q \in 1..4, r \in 0..2 :
        LET base == p + 1 + q
        IN  /\ Len(s) = base + (IF r = 0 THEN 0 ELSE 1 + r)
            /\ AllIn(s, 1, p, IsUpperAlnum)
            /\ IsDigit(s[p + 1])
            /\ AllIn(s, p + 2, base, IsUpperAlnum)
            /\ r > 0 => s[base + 1] = 45 /\ AllIn(s, base + 2, base + 1 + r, IsDigit)

\* the index after the run of digits of s that starts at index i
RECURSIVE SkipDigits(_, _)
SkipDigits(s, i) == IF i <= Len(s) /\ IsDigit(s[i]) THEN SkipDigits(s, i + 1) ELSE i

\* s from index i is \d+ sep1 \d+ sep2 ... \d+ to its end
RECURSIVE MatchDigitGroups(_, _, _)
MatchDigitGroups(s, i, seps) ==
    LET j == SkipDigits(s, i)
    IN  /\ j > i
        /\ IF seps = <<>> THEN j = Len(s) + 1
           ELSE j <= Len(s) /\ s[j] = Head(seps) /\ MatchDigitGroups(s, j + 1, Tail(seps))

\* re.match(r'^\d+\.\d+\.\d+\.\d+:\d+$', s)
MatchIpPort(s) == MatchDigitGroups(s, 1, <<46, 46, 46, 58>>)

\* message.replace('\r\n', '\n').replace('\n', '\r'): every '\r' that a '\n' follows
\* is dropped, then every '\n' becomes '\r'
NlToCr(s) ==
    LET tagged == [i \in 1..Len(s) |->
                      [ch |-> s[i], crlf |-> s[i] = 13 /\ i < Len(s) /\ s[i + 1] = 10]]
        kept == SelectSeq(tagged, LAMBDA x : ~x.crlf)
    IN  [i \in 1..Len(kept) |-> IF kept[i].ch = 10 THEN 13 ELSE kept[i].ch]

\* the chunk size of _send_to_station
CHUNK_SIZE == 200

\* [message[i:i + n] for i in range(0, len(message), n)]
RECURSIVE Chunks(_, _)
Chunks(s, n) ==
    IF s = <<>> THEN <<>>
    ELSE <<Slice(s, 1, n)>> \o Chunks(Slice(s, n + 1, Len(s)), n)

\* the UTF-8 encoding of one character (a code point that is no surrogate)
Utf8Char(cp) ==
    IF cp < 128 THEN <<cp>>
    ELSE IF cp < 2048 THEN <<192 + (cp \div 64), 128 + (cp % 64)>>
    ELSE IF cp < 65536
         THEN <<224 + (cp \div 4096), 128 + ((cp \div 64) % 64), 128 + (cp % 64)>>
    ELSE <<240 + (cp \div 262144), 128 + ((cp \div 4096) % 64),
           128 + ((cp \div 64) % 64), 128 + (cp % 64)>>

\* str.encode('utf-8'): the encodings of the characters, one after the other
RECURSIVE Utf8Encode(_)
Utf8Encode(s) ==
    IF \A i \in 1..Len(s) : s[i] < 128 THEN s
    ELSE IF Len(s) = 1 THEN Utf8Char(s[1])
    ELSE Utf8Encode(SubSeq(s, 1, Len(s) \div 2))
             \o Utf8Encode(SubSeq(s, Len(s) \div 2 + 1, Len(s)))

\* s ends with t
EndsWith(s, t) == Len(s) >= Len(t) /\ SubSeq(s, Len(s) - Len(t) + 1, Len(s)) = t

\* s contains t
Contains(s, t) == \E i \in 1..(Len(s) - Len(t) + 1) : SubSeq(s, i, i + Len(t) - 1) = t

(***************************************************************************)
(* Dictionaries are functions; their keys are the function's domain.       *)
(***************************************************************************)
EmptyDict == <<>>

Has(d, k) == k \in DOMAIN d

Put(d, k, v) == [x \in (DOMAIN d) \cup {k} |-> IF x = k THEN v ELSE d[x]]

Del(d, k) == [x \in (DOMAIN d) \ {k} |-> d[x]]

(***************************************************************************)
(* Texts of the program and of its callers                                 *)
(***************************************************************************)
\* 'hello'
L_HELLO == <<104, 101, 108, 108, 111>>
\* 'help'
L_HELP == <<104, 101, 108, 112>>
\* 'clear'
L_CLEAR == <<99, 108, 101, 97, 114>>
\* 'quit'
L_QUIT == <<113, 117, 105, 116>>
\* 'root'
L_ROOT == <<114, 111, 111, 116>>
\* '10.0.0.1:5001'
ADDR_1 == <<49, 48, 46, 48, 46, 48, 46, 49, 58, 53, 48, 48, 49>>
\* '10.0.0.2:5002'
ADDR_2 == <<49, 48, 46, 48, 46, 48, 46, 50, 58, 53, 48, 48, 50>>
\* '...\n'
TXT_TYPING == <<46, 46, 46, 10>>
\* 'Welcome to PacketClaude!\n\nCallsign: '
TXT_CALLSIGN_PROMPT == <<87, 101, 108, 99, 111, 109, 101, 32, 116, 111, 32, 80, 97, 99, 107, 101, 116, 67, 108, 97, 117, 100, 101, 33, 10, 10, 67, 97, 108, 108, 115, 105, 103, 110, 58, 32>>
\* '\nInvalid callsign format. Please enter a valid amateur radio callsign: '
TXT_INVALID_CALLSIGN == <<10, 73, 110, 118, 97, 108, 105, 100, 32, 99, 97, 108, 108, 115, 105, 103, 110, 32, 102, 111, 114, 109, 97, 116, 46, 32, 80, 108, 101, 97, 115, 101, 32, 101, 110, 116, 101, 114, 32, 97, 32, 118, 97, 108, 105, 100, 32, 97, 109, 97, 116, 101, 117, 114, 32, 114, 97, 100, 105, 111, 32, 99, 97, 108, 108, 115, 105, 103, 110, 58, 32>>
\* '\n'
TXT_NL == <<10>>
\* "\n" + banner + "\n", the banner text shortened
TXT_BANNER == <<10, 91, 98, 97, 110, 110, 101, 114, 93, 10>>
\* activity_summary + "\n", the summary shortened
TXT_ACTIVITY == <<91, 97, 99, 116, 105, 118, 105, 116, 121, 93, 10>>
\* "You have 1 new message. Type 'check mail' to read it.\n"
TXT_MAIL_NOTICE == <<89, 111, 117, 32, 104, 97, 118, 101, 32, 49, 32, 110, 101, 119, 32, 109, 101, 115, 115, 97, 103, 101, 46, 32, 84, 121, 112, 101, 32, 39, 99, 104, 101, 99, 107, 32, 109, 97, 105, 108, 39, 32, 116, 111, 32, 114, 101, 97, 100, 32, 105, 116, 46, 10>>
\* config.welcome_message + "\n", the configured text shortened
TXT_WELCOME_BACK == <<91, 119, 101, 108, 99, 111, 109, 101, 93, 10>>
\* 'Welcome '
TXT_WELCOME_1 == <<87, 101, 108, 99, 111, 109, 101, 32>>
\* ' ('
TXT_WELCOME_2 == <<32, 40>>
\* ")!\nType 'help' for commands.\n"
TXT_WELCOME_3 == <<41, 33, 10, 84, 121, 112, 101, 32, 39, 104, 101, 108, 112, 39, 32, 102, 111, 114, 32, 99, 111, 109, 109, 97, 110, 100, 115, 46, 10>>
\* '73! Goodbye.\n'
TXT_GOODBYE == <<55, 51, 33, 32, 71, 111, 111, 100, 98, 121, 101, 46, 10>>
\* 'Conversation history cleared.\n> '
TXT_CLEARED == <<67, 111, 110, 118, 101, 114, 115, 97, 116, 105, 111, 110, 32, 104, 105, 115, 116, 111, 114, 121, 32, 99, 108, 101, 97, 114, 101, 100, 46, 10, 62, 32>>
\* help_text, its body shortened
TXT_HELP == <<10, 80, 97, 99, 107, 101, 116, 67, 108, 97, 117, 100, 101, 32, 72, 101, 108, 112, 58, 10, 91, 46, 46, 46, 93, 10>>
\* '> '
TXT_PROMPT == <<62, 32>>
\* 'Rate limit exceeded: '
TXT_RATE_1 == <<82, 97, 116, 101, 32, 108, 105, 109, 105, 116, 32, 101, 120, 99, 101, 101, 100, 101, 100, 58, 32>>
\* "\nPlease try again later. Type 'status' for details.\n> "
TXT_RATE_2 == <<10, 80, 108, 101, 97, 115, 101, 32, 116, 114, 121, 32, 97, 103, 97, 105, 110, 32, 108, 97, 116, 101, 114, 46, 32, 84, 121, 112, 101, 32, 39, 115, 116, 97, 116, 117, 115, 39, 32, 102, 111, 114, 32, 100, 101, 116, 97, 105, 108, 115, 46, 10, 62, 32>>
\* 'Hourly limit reached ('
TXT_HOURLY_1 == <<72, 111, 117, 114, 108, 121, 32, 108, 105, 109, 105, 116, 32, 114, 101, 97, 99, 104, 101, 100, 32, 40>>
\* '/hour)'
TXT_HOURLY_2 == <<47, 104, 111, 117, 114, 41>>
\* 'Daily limit reached ('
TXT_DAILY_1 == <<68, 97, 105, 108, 121, 32, 108, 105, 109, 105, 116, 32, 114, 101, 97, 99, 104, 101, 100, 32, 40>>
\* '/day)'
TXT_DAILY_2 == <<47, 100, 97, 121, 41>>
\* 'Invalid callsign format'
TXT_INVALID_FORMAT == <<73, 110, 118, 97, 108, 105, 100, 32, 99, 97, 108, 108, 115, 105, 103, 110, 32, 102, 111, 114, 109, 97, 116>>
\* 'Error: '
TXT_ERROR_1 == <<69, 114, 114, 111, 114, 58, 32>>
\* '\nPlease try again.\n> '
TXT_ERROR_2 == <<10, 80, 108, 101, 97, 115, 101, 32, 116, 114, 121, 32, 97, 103, 97, 105, 110, 46, 10, 62, 32>>
\* a reply of the LLM
LLM_REPLY == <<111, 107>>
\* an error string of the LLM client
LLM_ERROR == <<116, 105, 109, 101, 111, 117, 116>>

(***************************************************************************)
(* AX25Address                                                             *)
(***************************************************************************)
\* AX25Address.__init__
AX25Address(callsign, ssid, command_response, reserved_bits) ==
    [callsign         |-> LJust6(Upper(callsign)),
     ssid             |-> ssid % 16,
     command_response |-> command_response,
     reserved_bits    |-> reserved_bits % 4]

\* the default arguments of AX25Address.__init__
Address(callsign, ssid) == AX25Address(callsign, ssid, FALSE, 3)

\* AX25Address.encode
AddressEncode(a, last) ==
    [i \in 1..6 |-> a.callsign[i] * 2]
    \o << (IF a.command_response THEN 128 ELSE 0)
          + a.reserved_bits * 32 + a.ssid * 2 + (IF last THEN 1 ELSE 0) >>

\* AX25Address.decode, of a 7-byte slice
AddressDecode(data) ==
    AX25Address(Strip([i \in 1..6 |-> data[i] \div 2]),
                Bits(data[7], 1, 4),
                Bits(data[7], 7, 1) = 1,
                Bits(data[7], 5, 2))

(***************************************************************************)
(* AX25Frame                                                               *)
(***************************************************************************)
PID_NO_L3 == 240

Frame(destination, source, digipeaters, control, pid, info) ==
    [destination |-> destination, source |-> source, digipeaters |-> digipeaters,
     control |-> control, pid |-> pid, info |-> info]

\* AX25Frame._is_info_frame
IsInfoControl(control) == control % 2 = 0 \/ control = 3

\* (control & 0xEF): the control byte without its P/F bit
NoPF(control) == control - Bits(control, 4, 1) * 16

is_ui_frame(f)   == f.control = 3
is_sabm_frame(f) == NoPF(f.control) = 47
is_disc_frame(f) == NoPF(f.control) = 67
is_ua_frame(f)   == NoPF(f.control) = 99
is_dm_frame(f)   == NoPF(f.control) = 15

\* the control bytes the constructors set
CTL_UI   == 3
CTL_SABM == 63
CTL_UA   == 115
CTL_DISC == 83
CTL_DM   == 31

create_ui_frame(destination, source, info, dest_ssid, source_ssid) ==
    Frame(Address(destination, dest_ssid), Address(source, source_ssid), <<>>,
          CTL_UI, PID_NO_L3, info)

create_sabm_frame(destination, source, dest_ssid, source_ssid) ==
    Frame(Address(destination, dest_ssid), Address(source, source_ssid), <<>>,
          CTL_SABM, PID_NO_L3, <<>>)

create_ua_frame(destination, source, dest_ssid, source_ssid) ==
    Frame(Address(destination, dest_ssid), Address(source, source_ssid), <<>>,
          CTL_UA, PID_NO_L3, <<>>)

create_disc_frame(destination, source, dest_ssid, source_ssid) ==
    Frame(Address(destination, dest_ssid), Address(source, source_ssid), <<>>,
          CTL_DISC, PID_NO_L3, <<>>)

create_dm_frame(destination, source, dest_ssid, source_ssid) ==
    Frame(Address(destination, dest_ssid), Address(source, source_ssid), <<>>,
          CTL_DM, PID_NO_L3, <<>>)

RECURSIVE EncodeDigis(_, _)
EncodeDigis(digis, i) ==
    IF i > Len(digis) THEN <<>>
    ELSE AddressEncode(digis[i], i = Len(digis)) \o EncodeDigis(digis, i + 1)

\* AX25Frame.encode
FrameEncode(f) ==
    AddressEncode(f.destination, FALSE)
    \o AddressEncode(f.source, Len(f.digipeaters) = 0)
    \o EncodeDigis(f.digipeaters, 1)
    \o <<f.control>>
    \o (IF IsInfoControl(f.control) THEN <<f.pid>> ELSE <<>>)
    \o f.info

\* the minimum length AX25Frame.decode accepts
MIN_FRAME_LEN == 16

\* the while loop of AX25Frame.decode: offset is 0-based as in the source, and
\* the result is <<digipeaters, offset>>
RECURSIVE DecodeDigis(_, _, _)
DecodeDigis(data, offset, digis) ==
    IF offset < Len(data) /\ data[offset] % 2 = 0 /\ offset + 7 <= Len(data)
    THEN DecodeDigis(data, offset + 7,
                     Append(digis, AddressDecode(SubSeq(data, offset + 1, offset + 7))))
    ELSE <<digis, offset>>

DecodeError(msg) == [ok |-> FALSE, error |-> msg]

\* AX25Frame.decode: the frame, or the ValueError it raises
FrameDecode(data) ==
    IF Len(data) < MIN_FRAME_LEN THEN DecodeError("Frame too short")
    ELSE
      LET destination == AddressDecode(SubSeq(data, 1, 7))
          source      == AddressDecode(SubSeq(data, 8, 14))
          dd          == DecodeDigis(data, 14, <<>>)
          offset      == dd[2]
      IN  IF offset >= Len(data) THEN DecodeError("No control field")
          ELSE
            LET control == data[offset + 1]
                hasPid  == IsInfoControl(control) /\ offset + 1 < Len(data)
                pid     == IF hasPid THEN data[offset + 2] ELSE PID_NO_L3
                info    == IF hasPid THEN Slice(data, offset + 3, Len(data)) ELSE <<>>
            IN  [ok |-> TRUE,
                 frame |-> Frame(destination, source, dd[1], control, pid, info)]

(***************************************************************************)
(* SpecFrame: a frame built by a constructor, encoded, then decoded        *)
(***************************************************************************)
\* callsigns as character codes
W1ABC == <<87, 49, 65, 66, 67>>
W2ASM == <<87, 50, 65, 83, 77>>
K0ASM == <<75, 48, 65, 83, 77>>
RELAY == <<82, 69, 76, 65, 89>>
WIDE1 == <<87, 73, 68, 69, 49>>

\* the longest digipeater chain of an input frame
MaxDigis == 2

DigiChoices == {Address(RELAY, 0), Address(WIDE1, 1)}

RECURSIVE SeqsUpTo(_, _)
SeqsUpTo(S, n) ==
    IF n = 0 THEN {<<>>}
    ELSE LET shorter == SeqsUpTo(S, n - 1)
         IN  shorter \cup {Append(s, x) : s \in {t \in shorter : Len(t) = n - 1}, x \in S}

\* "hi" and "hello\r"
InfoChoices == {<<>>, <<104, 105>>, <<104, 101, 108, 108, 111, 13>>}

RemoteChoices == {<<W1ABC, 0>>, <<K0ASM, 5>>}
LocalChoices  == {<<W2ASM, 10>>, <<W2ASM, 0>>}

BuiltFrames ==
    UNION {
      { [create_sabm_frame(d[1], s[1], d[2], s[2]) EXCEPT !.digipeaters = g],
        [create_ua_frame(d[1], s[1], d[2], s[2])   EXCEPT !.digipeaters = g],
        [create_disc_frame(d[1], s[1], d[2], s[2]) EXCEPT !.digipeaters = g],
        [create_dm_frame(d[1], s[1], d[2], s[2])   EXCEPT !.digipeaters = g] }
      \cup { [create_ui_frame(d[1], s[1], i, d[2], s[2]) EXCEPT !.digipeaters = g]
             : i \in InfoChoices }
      : d \in LocalChoices \cup RemoteChoices, s \in RemoteChoices,
        g \in SeqsUpTo(DigiChoices, MaxDigis) }

FrameIdle == fpc = "off" /\ fr = None /\ wire = <<>> /\ dec = None

\* the program not started: nothing in any table
ProgIdle ==
    /\ connections = <<>> /\ transfers = <<>> /\ files = <<>>
    /\ shares = <<>> /\ file_seq = 0 /\ running = FALSE
    /\ sessions = <<>> /\ rows = <<>> /\ turn = <<>>
    /\ tconn = <<>> /\ ttable = <<>>
    /\ sent = <<>> /\ fired = <<>> /\ handled = NoInput /\ log = <<>>

InitFrame ==
    /\ fpc = "built"
    /\ fr \in BuiltFrames
    /\ wire = <<>>
    /\ dec = None
    /\ ProgIdle

\* f.encode()
Encode ==
    /\ fpc = "built"
    /\ wire' = FrameEncode(fr)
    /\ fpc' = "encoded"
    /\ UNCHANGED <<fr, dec>>
    /\ UNCHANGED progVars

\* AX25Frame.decode(wire)
Decode ==
    /\ fpc = "encoded"
    /\ dec' = FrameDecode(wire)
    /\ fpc' = "decoded"
    /\ UNCHANGED <<fr, wire>>
    /\ UNCHANGED progVars

NextFrame == Encode \/ Decode

SpecFrame == InitFrame /\ [][NextFrame]_vars

(***************************************************************************)
(* C2: AX.25 round trip.  For every well-formed frame with 0..MaxDigis     *)
(* digipeaters of every type the constructors build, decode(encode(f))     *)
(* succeeds and yields the same destination, source, digipeater chain,     *)
(* control byte, PID where applicable, and info.                           *)
(***************************************************************************)
C2_RoundTrip ==
    fpc = "decoded" =>
        /\ dec.ok
        /\ dec.frame.destination = fr.destination
        /\ dec.frame.source = fr.source
        /\ dec.frame.digipeaters = fr.digipeaters
        /\ dec.frame.control = fr.control
        /\ (IsInfoControl(fr.control) => dec.frame.pid = fr.pid)
        /\ dec.frame.info = fr.info

\* what the code does do: the round trip holds for every frame whose encoding
\* has at least MIN_FRAME_LEN bytes, and the others are refused
RoundTripOfLongFrames ==
    fpc = "decoded" =>
        IF Len(wire) >= MIN_FRAME_LEN
        THEN dec.ok /\ dec.frame = fr
        ELSE ~dec.ok /\ dec.error = "Frame too short"

(***************************************************************************)
(* The running program.  A handler is an operator from the program's state *)
(* (a record w of the tables) to the state it leaves; `sent` and `fired`   *)
(* collect what the handler wrote and which callbacks it fired.            *)
(***************************************************************************)
World ==
    [running |-> running,
     connections |-> connections, transfers |-> transfers, files |-> files,
     shares |-> shares, file_seq |-> file_seq,
     sessions |-> sessions, rows |-> rows, turn |-> turn, tconn |-> tconn,
     ttable |-> ttable, sent |-> <<>>, fired |-> <<>>, raised |-> FALSE]

Install(w) ==
    /\ connections' = w.connections
    /\ transfers' = w.transfers
    /\ running' = w.running
    /\ files' = w.files
    /\ shares' = w.shares
    /\ file_seq' = w.file_seq
    /\ sessions' = w.sessions
    /\ rows' = w.rows
    /\ turn' = w.turn
    /\ tconn' = w.tconn
    /\ ttable' = w.ttable
    /\ sent' = w.sent
    /\ fired' = w.fired
    /\ UNCHANGED log

\* a connection object as a handler holds it: a telnet socket's TelnetConnection,
\* or the AX25Connection of a table entry (the object itself for the temporary
\* connection of a UI frame, which is in no table)
TelnetRef(t) == [kind |-> "telnet", sock |-> t]
AxRef(key, conn) == [kind |-> "ax25", key |-> key, conn |-> conn]

IsTelnet(c) == c.kind = "telnet"

\* AX25Connection.__init__
AX25Connection(remote_callsign, remote_ssid, local_callsign, local_ssid) ==
    [remote_callsign |-> remote_callsign, remote_ssid |-> remote_ssid,
     local_callsign |-> local_callsign, local_ssid |-> local_ssid,
     state |-> "disconnected", in_yapp_mode |-> FALSE, idle |-> 0]

\* the AX25Connection object behind a reference
AxConn(w, c) == IF Has(w.connections, c.key) THEN w.connections[c.key] ELSE c.conn

\* an assignment to a field of the object behind a reference
SetAxState(w, c, s) ==
    IF Has(w.connections, c.key)
    THEN [w EXCEPT !.connections[c.key].state = s]
    ELSE w

\* conn.last_activity = time.time(): idle is the time since last_activity, in
\* seconds
TouchAx(w, c) ==
    IF Has(w.connections, c.key)
    THEN [w EXCEPT !.connections[c.key].idle = 0]
    ELSE w

\* f"{callsign}-{ssid}"
WithSsid(callsign, ssid) == callsign \o <<45>> \o Str(ssid)

\* AX25Connection.remote_address
AxRemoteAddress(conn) ==
    IF conn.remote_ssid # 0 THEN WithSsid(conn.remote_callsign, conn.remote_ssid)
    ELSE conn.remote_callsign

\* TelnetConnection.remote_address
TelnetRemoteAddress(tc) == IF tc.callsign # <<>> THEN tc.callsign ELSE tc.addr

\* connection.remote_address
RemoteAddress(w, c) ==
    IF IsTelnet(c) THEN TelnetRemoteAddress(w.tconn[c.sock])
    ELSE AxRemoteAddress(AxConn(w, c))

Emit(w, item) == [w EXCEPT !.sent = Append(@, item)]

Fire(w, name, c) == [w EXCEPT !.fired = Append(@, [name |-> name, c |-> c])]

\* a callback fired by the telnet server with the line it passes
FireLine(w, name, c, line) ==
    [w EXCEPT !.fired = Append(@, [name |-> name, c |-> c, line |-> line])]

\* AX25ConnectionHandler._send_frame
SendFrame(w, frame) == Emit(w, [kind |-> "frame", frame |-> frame])

\* AX25ConnectionHandler.send_data
AxSendData(w, c, data) ==
    LET conn == AxConn(w, c)
    IN  IF conn.state # "connected" THEN w
        ELSE TouchAx(SendFrame(w, create_ui_frame(conn.remote_callsign,
                                                  conn.local_callsign, data,
                                                  conn.remote_ssid, conn.local_ssid)),
                     c)

\* TelnetServer.send_data
TelnetSendData(w, c, data) ==
    IF w.tconn[c.sock].state # "connected" THEN w
    ELSE Emit([w EXCEPT !.tconn[c.sock].idle = 0],
              [kind |-> "tcp", sock |-> c.sock, data |-> data])

RECURSIVE AxSendChunks(_, _, _)
AxSendChunks(w, c, chunks) ==
    IF chunks = <<>> THEN w
    ELSE AxSendChunks(AxSendData(w, c, Utf8Encode(Head(chunks))), c, Tail(chunks))

\* PacketClaude._send_to_station
SendToStation(w, c, message) ==
    IF IsTelnet(c) THEN TelnetSendData(w, c, Utf8Encode(message))
    ELSE AxSendChunks(w, c, Chunks(NlToCr(message), CHUNK_SIZE))

(***************************************************************************)
(* ConversationSession and SessionManager                                  *)
(***************************************************************************)
\* config.max_context_messages, the maxlen of a session's deque
MaxContextMessages == 2

\* ConversationSession.__init__
ConversationSession(callsign) ==
    [callsign |-> callsign, messages |-> <<>>, authenticated |-> FALSE,
     operator_info |-> Null, idle |-> 0]

\* a deque that, when full, would drop its newest entry in place of its oldest
DequeAppendDropNewest(q, x, n) ==
    IF n = 0 THEN <<>>
    ELSE IF Len(q) >= n THEN Append(SubSeq(q, 1, Len(q) - 1), x)
    ELSE Append(q, x)

\* deque.append on a deque with maxlen n
DequeAppend(q, x, n) ==
    IF n = 0 THEN <<>>
    ELSE IF Len(q) >= n THEN Append(Tail(q), x)
    ELSE Append(q, x)

\* SessionManager.get_session: the store after the call
EnsureSession(ss, callsign) ==
    IF Has(ss, Upper(callsign)) THEN ss
    ELSE Put(ss, Upper(callsign), ConversationSession(Upper(callsign)))

\* SessionManager.get_session: the session returned
GetSession(ss, callsign) == EnsureSession(ss, callsign)[Upper(callsign)]

\* ConversationSession.add_message through SessionManager.add_user_message and
\* SessionManager.add_assistant_message
AddMessage(ss, callsign, role, content) ==
    [EnsureSession(ss, callsign) EXCEPT
        ![Upper(callsign)].messages =
            DequeAppend(@, [role |-> role, content |-> content], MaxContextMessages),
        ![Upper(callsign)].idle = 0]

add_user_message(ss, callsign, message) == AddMessage(ss, callsign, "user", message)

add_assistant_message(ss, callsign, message) == AddMessage(ss, callsign, "assistant", message)

\* SessionManager.clear_session
clear_session(ss, callsign) ==
    IF Has(ss, Upper(callsign)) THEN [ss EXCEPT ![Upper(callsign)].messages = <<>>]
    ELSE ss

\* SessionManager.remove_session
remove_session(ss, callsign) ==
    IF Has(ss, Upper(callsign)) THEN Del(ss, Upper(callsign)) ELSE ss

\* ConversationSession.authenticate, on the session stored under key
Authenticate(ss, key, operator_info) ==
    [ss EXCEPT ![key].authenticated = TRUE, ![key].operator_info = operator_info]

(***************************************************************************)
(* The dispatcher: PacketClaude._on_connect, _authenticate_callsign,       *)
(* _on_disconnect and _on_data                                             *)
(***************************************************************************)
\* 'bye'
L_BYE == <<98, 121, 101>>
\* 'exit'
L_EXIT == <<101, 120, 105, 116>>
\* '73'
L_73 == <<55, 51>>
\* '/exit'
L_SLASH_EXIT == <<47, 101, 120, 105, 116>>
\* 'close'
L_CLOSE == <<99, 108, 111, 115, 101>>
\* 'logout'
L_LOGOUT == <<108, 111, 103, 111, 117, 116>>
\* 'disconnect'
L_DISCONNECT == <<100, 105, 115, 99, 111, 110, 110, 101, 99, 116>>
\* '?'
L_QMARK == <<63>>
\* 'reset'
L_RESET == <<114, 101, 115, 101, 116>>
\* '\n\n[Response truncated at '
TXT_TRUNCATED_1 == <<10, 10, 91, 82, 101, 115, 112, 111, 110, 115, 101, 32, 116, 114, 117, 110, 99, 97, 116, 101, 100, 32, 97, 116, 32>>
\* ' chars]'
TXT_TRUNCATED_2 == <<32, 99, 104, 97, 114, 115, 93>>
\* '\n> '
TXT_NL_PROMPT == <<10, 62, 32>>
\* 'Pat'
OP_NAME == <<80, 97, 116>>

\* config.session_timeout
SESSION_TIMEOUT == 0

\* config.max_response_chars
MAX_RESPONSE_CHARS == 1024

\* what the services the dispatcher asks can answer during one handler:
\* whether qrz_lookup.lookup finds the operator, and database.get_unread_count
UnreadCounts == {0, 1}

Envs == [qrz : BOOLEAN, unread : UnreadCounts]

\* TelnetConnection.set_callsign
set_callsign(w, t, callsign) ==
    IF callsign # <<>> /\ Strip(callsign) # <<>>
    THEN [w EXCEPT !.tconn[t].callsign = Upper(Strip(callsign))]
    ELSE w

\* the rekeying of _authenticate_callsign: the session store, then the telnet table
RekeyTables(w, old_address, new_address) ==
    LET w1 == IF old_address # new_address /\ Has(w.sessions, old_address)
              THEN [w EXCEPT !.sessions =
                        Del(Put(@, new_address, @[old_address]), old_address)]
              ELSE w
    IN  IF old_address # new_address /\ Has(w1.ttable, old_address)
        THEN [w1 EXCEPT !.ttable = Del(Put(@, new_address, @[old_address]), old_address)]
        ELSE w1

\* the texts _authenticate_callsign sends after the rekeying
SendGreeting(w, c, callsign, operator_info, unread_count) ==
    LET w1 == SendToStation(w, c, TXT_BANNER)
        w2 == SendToStation(w1, c, TXT_ACTIVITY)
        w3 == IF unread_count > 0 THEN SendToStation(w2, c, TXT_MAIL_NOTICE) ELSE w2
        w4 == SendToStation(w3, c, TXT_NL)
    IN  SendToStation(w4, c, TXT_WELCOME_1 \o operator_info.fullname \o TXT_WELCOME_2
                             \o callsign \o TXT_WELCOME_3 \o TXT_PROMPT)

\* PacketClaude._authenticate_callsign
AuthenticateCallsign(w, c, callsign, env) ==
    LET operator_info ==
            IF env.qrz
            THEN [call |-> Upper(callsign), fullname |-> OP_NAME]
            ELSE [call |-> Upper(callsign), fullname |-> Upper(callsign)]
        old_address == RemoteAddress(w, c)
        w1 == [w EXCEPT !.sessions =
                  Authenticate(EnsureSession(@, old_address), Upper(old_address),
                               operator_info)]
        w2 == IF IsTelnet(c) /\ w1.tconn[c.sock].callsign = <<>>
              THEN LET w1a == set_callsign(w1, c.sock, callsign)
                   IN  RekeyTables(w1a, old_address, RemoteAddress(w1a, c))
              ELSE w1
    IN  SendGreeting(w2, c, callsign, operator_info, env.unread)

\* PacketClaude._on_connect
OnConnect(w, c, env) ==
    LET remote_address == RemoteAddress(w, c)
        w1 == [w EXCEPT !.sessions = EnsureSession(@, remote_address)]
    IN  IF ~GetSession(w1.sessions, remote_address).authenticated
        THEN IF MatchIpPort(remote_address)
             THEN SendToStation(w1, c, TXT_CALLSIGN_PROMPT)
             ELSE AuthenticateCallsign(w1, c, remote_address, env)
        ELSE SendToStation(w1, c, TXT_WELCOME_BACK)

\* PacketClaude._on_disconnect
OnDisconnect(w, c) ==
    IF SESSION_TIMEOUT = 0
    THEN [w EXCEPT !.sessions = remove_session(@, RemoteAddress(w, c))]
    ELSE w

\* TelnetServer._handle_disconnect
TelnetHandleDisconnect(w, t) ==
    LET key == TelnetRemoteAddress(w.tconn[t])
    IN  IF Has(w.ttable, key)
        THEN LET w1 == OnDisconnect(Fire(w, "on_disconnect", TelnetRef(t)), TelnetRef(t))
             IN  [w1 EXCEPT !.tconn[t].state = "disconnected",
                            !.ttable = Del(@, key)]
        ELSE w

\* TelnetServer.disconnect
TelnetDisconnect(w, t) ==
    IF w.tconn[t].state = "disconnected" THEN w
    ELSE TelnetHandleDisconnect([w EXCEPT !.tconn[t].state = "disconnecting"], t)

\* AX25ConnectionHandler.disconnect
AxDisconnect(w, c) ==
    LET conn == AxConn(w, c)
    IN  IF conn.state = "disconnected" THEN w
        ELSE SetAxState(SendFrame(w, create_disc_frame(conn.remote_callsign,
                                                       conn.local_callsign,
                                                       conn.remote_ssid,
                                                       conn.local_ssid)),
                        c, "disconnecting")

(***************************************************************************)
(* RateLimiter.check_limit over the queries table.  A row carries its age  *)
(* in whole hours in place of its timestamp.                               *)
(***************************************************************************)
\* config.rate_limit_enabled
RATE_LIMIT_ENABLED == TRUE

\* config.rate_limit_per_hour and config.rate_limit_per_day
RateLimitPerHour == 2
RateLimitPerDay == 3

\* timedelta(hours=1) and timedelta(days=1), in hours
HOUR_WINDOW == 1
DAY_WINDOW == 24

\* Database.log_query: the row it inserts
QueryRow(callsign, error) == [callsign |-> callsign, age |-> 0, error |-> error]

\* SELECT COUNT(*) FROM queries WHERE callsign = ? AND timestamp > ? AND error IS NULL
CountQueries(qs, callsign, window) ==
    Cardinality({i \in 1..Len(qs) : /\ qs[i].callsign = callsign
                                    /\ qs[i].age < window
                                    /\ qs[i].error = <<>>})

\* a check that would deny only once a limit is exceeded
check_rate_limit_exceeded(qs, callsign, queries_per_hour, queries_per_day) ==
    IF CountQueries(qs, callsign, HOUR_WINDOW) > queries_per_hour
    THEN [allowed |-> FALSE,
          reason |-> TXT_HOURLY_1 \o Str(queries_per_hour) \o TXT_HOURLY_2]
    ELSE IF CountQueries(qs, callsign, DAY_WINDOW) > queries_per_day
    THEN [allowed |-> FALSE,
          reason |-> TXT_DAILY_1 \o Str(queries_per_day) \o TXT_DAILY_2]
    ELSE [allowed |-> TRUE, reason |-> <<>>]

\* Database.check_rate_limit
check_rate_limit(qs, callsign, queries_per_hour, queries_per_day) ==
    IF CountQueries(qs, callsign, HOUR_WINDOW) >= queries_per_hour
    THEN [allowed |-> FALSE,
          reason |-> TXT_HOURLY_1 \o Str(queries_per_hour) \o TXT_HOURLY_2]
    ELSE IF CountQueries(qs, callsign, DAY_WINDOW) >= queries_per_day
    THEN [allowed |-> FALSE,
          reason |-> TXT_DAILY_1 \o Str(queries_per_day) \o TXT_DAILY_2]
    ELSE [allowed |-> TRUE, reason |-> <<>>]

\* RateLimiter.is_valid_callsign
is_valid_callsign(callsign) == MatchCallsign(Strip(Upper(callsign)))

\* RateLimiter.check_limit
check_limit(qs, callsign) ==
    IF ~RATE_LIMIT_ENABLED THEN [allowed |-> TRUE, reason |-> <<>>]
    ELSE IF ~is_valid_callsign(callsign)
    THEN [allowed |-> FALSE, reason |-> TXT_INVALID_FORMAT]
    ELSE check_rate_limit(qs, Upper(callsign), RateLimitPerHour, RateLimitPerDay)

(***************************************************************************)
(* YAPP: YAPPHeader, YAPPTransfer and YAPPManager                          *)
(***************************************************************************)
\* YAPPControl
YAPP_ENQ == 5
YAPP_ACK == 6
YAPP_NAK == 21
YAPP_SOH == 1
YAPP_STX == 2
YAPP_ETX == 3
YAPP_EOT == 4
YAPP_CAN == 24

\* YAPPTransfer.BLOCK_SIZE and YAPPTransfer.MAX_RETRIES
BLOCK_SIZE == 128
MAX_RETRIES == 3

\* bytes.rstrip(b'\x00')
RStripNul(s) ==
    LET nonzero == {i \in 1..Len(s) : s[i] # 0}
    IN  IF nonzero = {} THEN <<>>
        ELSE SubSeq(s, 1, CHOOSE i \in nonzero : \A j \in nonzero : j <= i)

\* bytes.decode('ascii', errors='ignore')
DecodeAscii(s) == SelectSeq(s, LAMBDA b : b < 128)

\* str.split(): the words of s between runs of whitespace
RECURSIVE SplitWs(_, _, _)
SplitWs(s, word, parts) ==
    IF s = <<>> THEN (IF word = <<>> THEN parts ELSE Append(parts, word))
    ELSE IF IsWhite(Head(s))
    THEN SplitWs(Tail(s), <<>>, IF word = <<>> THEN parts ELSE Append(parts, word))
    ELSE SplitWs(Tail(s), Append(word, Head(s)), parts)

Split(s) == SplitWs(s, <<>>, <<>>)

\* int(s) succeeds: an optional sign and then digits
IsInt(s) ==
    LET digits == IF s # <<>> /\ s[1] \in {43, 45} THEN Tail(s) ELSE s
    IN  digits # <<>> /\ \A i \in 1..Len(digits) : IsDigit(digits[i])

RECURSIVE DigitsValue(_)
DigitsValue(s) == IF s = <<>> THEN 0 ELSE DigitsValue(SubSeq(s, 1, Len(s) - 1)) * 10 + (s[Len(s)] - 48)

\* int(s), where it succeeds
ToInt(s) ==
    IF s[1] = 45 THEN 0 - DigitsValue(Tail(s))
    ELSE IF s[1] = 43 THEN DigitsValue(Tail(s))
    ELSE DigitsValue(s)

\* YAPPHeader.decode: the header, or Null
HeaderDecode(data) ==
    LET parts == Split(Strip(DecodeAscii(RStripNul(data))))
    IN  IF Len(parts) < 2 THEN Null
        ELSE IF ~IsInt(parts[2]) THEN Null
        ELSE IF Len(parts) >= 3 /\ ~IsInt(parts[3]) THEN Null
        ELSE [filename |-> parts[1], file_size |-> ToInt(parts[2]),
              timestamp |-> IF Len(parts) >= 3 THEN ToInt(parts[3]) ELSE 0]

\* b'\x00' * n
Nuls(n) == [i \in 1..n |-> 0]

\* YAPPHeader.encode, of a header whose text has at most 128 characters
HeaderEncode(h) ==
    LET header_str == h.filename \o <<32>> \o Str(h.file_size) \o <<32>>
                      \o Str(h.timestamp) \o <<13>>
    IN  Slice(header_str \o Nuls(BLOCK_SIZE - Len(header_str)), 1, BLOCK_SIZE)

\* s[:n]
SliceTo(s, n) == IF n >= 0 THEN Slice(s, 1, n) ELSE Slice(s, 1, Len(s) + n)

\* (n + BLOCK_SIZE - 1) // BLOCK_SIZE, the floor division of Python
CeilBlocks(n) ==
    IF n + BLOCK_SIZE - 1 >= 0 THEN (n + BLOCK_SIZE - 1) \div BLOCK_SIZE
    ELSE 0 - ((0 - (n + BLOCK_SIZE - 1) + BLOCK_SIZE - 1) \div BLOCK_SIZE)

\* YAPPTransfer.__init__
YAPPTransfer(is_upload, callsign) ==
    [is_upload |-> is_upload, callsign |-> callsign, state |-> "idle", header |-> Null,
     file_data |-> <<>>, current_block |-> 0, expected_blocks |-> 0, retry_count |-> 0,
     idle |-> 0]

\* self.last_activity = time.time(): idle is the time since last_activity, in seconds
Touch(t) == [t EXCEPT !.idle = 0]

\* a handler's result: the transfer it leaves and the packet it returns (empty: None)
Reply(t, response) == [t |-> t, response |-> response]

\* YAPPTransfer.start_upload
TransferStartUpload(t) == Reply(Touch([t EXCEPT !.state = "wait_ack"]), <<YAPP_ACK>>)

\* YAPPTransfer.start_download
TransferStartDownload(t, filename, file_data, timestamp) ==
    Reply(Touch([t EXCEPT !.header = [filename |-> filename,
                                      file_size |-> Len(file_data),
                                      timestamp |-> timestamp],
                          !.file_data = file_data,
                          !.expected_blocks = CeilBlocks(Len(file_data)),
                          !.current_block = 0,
                          !.state = "wait_ack"]),
          <<YAPP_ENQ>>)

\* YAPPTransfer._send_header
SendHeader(t) ==
    IF t.header = Null THEN <<YAPP_CAN>> ELSE <<YAPP_SOH>> \o HeaderEncode(t.header)

\* YAPPTransfer._send_next_block
SendNextBlock(t) ==
    IF t.current_block >= t.expected_blocks THEN <<YAPP_ETX>>
    ELSE LET start == t.current_block * BLOCK_SIZE
             block_data == Slice(t.file_data, start + 1, start + BLOCK_SIZE)
         IN  <<YAPP_STX>> \o block_data \o Nuls(BLOCK_SIZE - Len(block_data))

\* YAPPTransfer._handle_nak
HandleNak(t) ==
    LET t1 == [t EXCEPT !.retry_count = @ + 1]
    IN  IF t1.retry_count >= MAX_RETRIES
        THEN Reply([t1 EXCEPT !.state = "error"], <<YAPP_CAN>>)
        ELSE IF t1.state = "sending_header" THEN Reply(t1, SendHeader(t1))
        ELSE IF t1.state = "sending_data" THEN Reply(t1, SendNextBlock(t1))
        ELSE Reply(t1, <<>>)

\* YAPPTransfer._handle_cancel
HandleCancel(t) == Reply([t EXCEPT !.state = "error"], <<>>)

\* YAPPTransfer.handle_packet, after last_activity is set
TransferHandleFresh(t, data) ==
    IF data = <<>> THEN Reply(t, <<>>)
    ELSE LET control_byte == data[1] IN
    CASE t.state = "wait_ack" ->
            IF control_byte = YAPP_ACK
            THEN IF t.is_upload THEN Reply([t EXCEPT !.state = "receiving_header"], <<>>)
                 ELSE LET t1 == [t EXCEPT !.state = "sending_header"]
                      IN  Reply(t1, SendHeader(t1))
            ELSE IF control_byte = YAPP_NAK THEN HandleNak(t)
            ELSE IF control_byte = YAPP_CAN THEN HandleCancel(t)
            ELSE Reply(t, <<>>)
      [] t.state = "receiving_header" ->
            IF control_byte = YAPP_SOH /\ Len(data) >= BLOCK_SIZE + 1
            THEN LET header == HeaderDecode(Slice(data, 2, BLOCK_SIZE + 1))
                 IN  IF header # Null
                     THEN Reply([t EXCEPT !.header = header,
                                          !.expected_blocks = CeilBlocks(header.file_size),
                                          !.state = "receiving_data"], <<YAPP_ACK>>)
                     ELSE Reply([t EXCEPT !.header = Null], <<YAPP_NAK>>)
            ELSE Reply(t, <<>>)
      [] t.state = "receiving_data" ->
            IF control_byte = YAPP_STX
            THEN IF Len(data) >= 2
                 THEN LET file_data == t.file_data \o Tail(data)
                          t1 == [t EXCEPT !.file_data = file_data, !.current_block = @ + 1]
                      IN  IF Len(file_data) >= t.header.file_size
                          THEN Reply([t1 EXCEPT !.file_data = SliceTo(file_data, t.header.file_size),
                                                !.state = "complete"], <<YAPP_ACK>>)
                          ELSE Reply(t1, <<YAPP_ACK>>)
                 ELSE Reply(t, <<>>)
            ELSE IF control_byte = YAPP_ETX
            THEN IF Len(t.file_data) >= t.header.file_size
                 THEN Reply([t EXCEPT !.state = "complete"], <<YAPP_ACK>>)
                 ELSE Reply(t, <<YAPP_NAK>>)
            ELSE Reply(t, <<>>)
      [] t.state = "sending_header" ->
            IF control_byte = YAPP_ACK
            THEN LET t1 == [t EXCEPT !.state = "sending_data"]
                 IN  Reply(t1, SendNextBlock(t1))
            ELSE IF control_byte = YAPP_NAK THEN HandleNak(t)
            ELSE Reply(t, <<>>)
      [] t.state = "sending_data" ->
            IF control_byte = YAPP_ACK
            THEN LET t1 == [t EXCEPT !.current_block = @ + 1]
                 IN  IF t1.current_block >= t1.expected_blocks
                     THEN Reply([t1 EXCEPT !.state = "complete"], <<YAPP_ETX>>)
                     ELSE Reply(t1, SendNextBlock(t1))
            ELSE IF control_byte = YAPP_NAK THEN HandleNak(t)
            ELSE Reply(t, <<>>)
      [] OTHER -> Reply(t, <<>>)

\* a manager call's result: the transfers it leaves and the packet it returns
ManagerReply(ts, response) == [transfers |-> ts, response |-> response]

\* YAPPTransfer.handle_packet
TransferHandlePacket(t, data) == TransferHandleFresh(Touch(t), data)

\* YAPPManager.start_upload
ManagerStartUpload(ts, callsign) ==
    IF Has(ts, callsign) THEN ManagerReply(ts, <<>>)
    ELSE LET r == TransferStartUpload(YAPPTransfer(TRUE, callsign))
         IN  ManagerReply(Put(ts, callsign, r.t), r.response)

\* YAPPManager.start_download
ManagerStartDownload(ts, callsign, filename, file_data, timestamp) ==
    IF Has(ts, callsign) THEN ManagerReply(ts, <<>>)
    ELSE LET r == TransferStartDownload(YAPPTransfer(FALSE, callsign), filename,
                                        file_data, timestamp)
         IN  ManagerReply(Put(ts, callsign, r.t), r.response)

\* YAPPManager.handle_packet
ManagerHandlePacket(ts, callsign, data) ==
    IF ~Has(ts, callsign)
    THEN IF data # <<>> /\ data[1] = YAPP_ENQ THEN ManagerStartUpload(ts, callsign)
         ELSE ManagerReply(ts, <<>>)
    ELSE LET r == TransferHandlePacket(ts[callsign], data)
         IN  IF r.t.state \in {"complete", "error"}
             THEN ManagerReply(Del(ts, callsign), r.response)
             ELSE ManagerReply(Put(ts, callsign, r.t), r.response)

\* AX25ConnectionHandler.handle_yapp_packet
HandleYappPacket(w, c, data) ==
    LET r == ManagerHandlePacket(w.transfers, RemoteAddress(w, c), data)
        w1 == [w EXCEPT !.transfers = r.transfers]
    IN  IF r.response # <<>> THEN AxSendData(w1, c, r.response) ELSE w1

\* an assignment to connection.in_yapp_mode
SetYappMode(w, c, v) ==
    IF Has(w.connections, c.key) THEN [w EXCEPT !.connections[c.key].in_yapp_mode = v]
    ELSE w

\* FileManager.calculate_checksum: the MD5 digest of the bytes, here a digest of
\* 16 bits
RECURSIVE calculate_checksum(_)
calculate_checksum(data) ==
    IF data = <<>> THEN 7
    ELSE (calculate_checksum(SubSeq(data, 1, Len(data) - 1)) * 31 + data[Len(data)] + 1)
         % 65521

\* Database.save_file: the row added to the files table; AUTOINCREMENT gives it
\* the id after the largest one ever given out
save_file(w, filename, file_data, file_size, checksum, owner_callsign, access_level) ==
    [w EXCEPT !.files = Append(@, [id |-> w.file_seq + 1, filename |-> filename,
                                   file_data |-> file_data, file_size |-> file_size,
                                   checksum |-> checksum,
                                   owner_callsign |-> Upper(owner_callsign),
                                   access_level |-> access_level,
                                   download_count |-> 0]),
              !.file_seq = @ + 1]

\* FileManager.MAX_FILE_SIZE, MAX_FILES_PER_USER and MAX_TOTAL_SIZE_PER_USER, and
\* the longest filename
MAX_FILE_SIZE == 102400
MAX_FILES_PER_USER == 50
MAX_TOTAL_SIZE_PER_USER == 5242880
MAX_FILENAME == 128

\* 'Filename cannot be empty'
ERR_NAME_EMPTY == <<70, 105, 108, 101, 110, 97, 109, 101, 32, 99, 97, 110, 110, 111, 116, 32, 98, 101, 32, 101, 109, 112, 116, 121>>
\* 'Filename too long (max 128 characters)'
ERR_NAME_LONG == <<70, 105, 108, 101, 110, 97, 109, 101, 32, 116, 111, 111, 32, 108, 111, 110, 103, 32, 40, 109, 97, 120, 32, 49, 50, 56, 32, 99, 104, 97, 114, 97, 99, 116, 101, 114, 115, 41>>
\* 'Filename contains invalid characters (use only a-z, A-Z, 0-9, ., _, -)'
ERR_NAME_CHARS == <<70, 105, 108, 101, 110, 97, 109, 101, 32, 99, 111, 110, 116, 97, 105, 110, 115, 32, 105, 110, 118, 97, 108, 105, 100, 32, 99, 104, 97, 114, 97, 99, 116, 101, 114, 115, 32, 40, 117, 115, 101, 32, 111, 110, 108, 121, 32, 97, 45, 122, 44, 32, 65, 45, 90, 44, 32, 48, 45, 57, 44, 32, 46, 44, 32, 95, 44, 32, 45, 41>>
\* 'Filename cannot contain path separators'
ERR_NAME_PATH == <<70, 105, 108, 101, 110, 97, 109, 101, 32, 99, 97, 110, 110, 111, 116, 32, 99, 111, 110, 116, 97, 105, 110, 32, 112, 97, 116, 104, 32, 115, 101, 112, 97, 114, 97, 116, 111, 114, 115>>
\* f'File too large (max {self.MAX_FILE_SIZE} bytes)', the figure left out
ERR_TOO_LARGE == <<70, 105, 108, 101, 32, 116, 111, 111, 32, 108, 97, 114, 103, 101, 32, 40, 109, 97, 120, 32, 91, 46, 46, 46, 93, 32, 98, 121, 116, 101, 115, 41>>
\* f'Maximum file count reached ({self.MAX_FILES_PER_USER} files)', the figure left out
ERR_FILE_COUNT == <<77, 97, 120, 105, 109, 117, 109, 32, 102, 105, 108, 101, 32, 99, 111, 117, 110, 116, 32, 114, 101, 97, 99, 104, 101, 100, 32, 40, 91, 46, 46, 46, 93, 32, 102, 105, 108, 101, 115, 41>>
\* f'Storage quota exceeded (max {self.MAX_TOTAL_SIZE_PER_USER} bytes)', the figure left out
ERR_QUOTA == <<83, 116, 111, 114, 97, 103, 101, 32, 113, 117, 111, 116, 97, 32, 101, 120, 99, 101, 101, 100, 101, 100, 32, 40, 109, 97, 120, 32, 91, 46, 46, 46, 93, 32, 98, 121, 116, 101, 115, 41>>
\* '\nUpload failed: '
TXT_UPLOAD_ERROR == <<10, 85, 112, 108, 111, 97, 100, 32, 102, 97, 105, 108, 101, 100, 58, 32>>
\* '\n> '
TXT_ERROR_END == <<10, 62, 32>>

\* [a-zA-Z0-9._-]
IsFilenameChar(c) ==
    \/ (c >= 97 /\ c <= 122) \/ (c >= 65 /\ c <= 90) \/ IsDigit(c)
    \/ c \in {46, 95, 45}

\* os.path.basename: what follows the last '/'
Basename(filename) ==
    LET slashes == {i \in 1..Len(filename) : filename[i] = 47}
    IN  IF slashes = {} THEN filename
        ELSE Slice(filename, (CHOOSE i \in slashes : \A j \in slashes : j <= i) + 1,
                   Len(filename))

\* FileManager.sanitize_filename, of a name whose basename has at most 128
\* characters (a YAPP header holds no longer one)
sanitize_filename(filename) ==
    [i \in 1..Len(Basename(filename)) |->
        IF IsFilenameChar(Basename(filename)[i]) THEN Basename(filename)[i] ELSE 95]

\* FileManager.validate_filename: the error, or nothing
validate_filename(filename) ==
    IF filename = <<>> THEN ERR_NAME_EMPTY
    ELSE IF Len(filename) > MAX_FILENAME THEN ERR_NAME_LONG
    ELSE IF \E i \in 1..Len(filename) : ~IsFilenameChar(filename[i]) THEN ERR_NAME_CHARS
    ELSE IF \/ \E i \in 1..(Len(filename) - 1) : filename[i] = 46 /\ filename[i + 1] = 46
            \/ \E i \in 1..Len(filename) : filename[i] \in {47, 92}
    THEN ERR_NAME_PATH
    ELSE <<>>

\* Database.get_file_count
get_file_count(fs, callsign) ==
    Cardinality({i \in 1..Len(fs) : fs[i].owner_callsign = Upper(callsign)})

\* Database.get_total_file_size
RECURSIVE SumFileSizes(_, _, _)
SumFileSizes(fs, callsign, n) ==
    IF n = 0 THEN 0
    ELSE SumFileSizes(fs, callsign, n - 1)
         + (IF fs[n].owner_callsign = Upper(callsign) THEN fs[n].file_size ELSE 0)

get_total_file_size(fs, callsign) == SumFileSizes(fs, callsign, Len(fs))

\* FileManager.check_quota: the error, or nothing
check_quota(fs, callsign, file_size) ==
    IF file_size > MAX_FILE_SIZE THEN ERR_TOO_LARGE
    ELSE IF get_file_count(fs, callsign) >= MAX_FILES_PER_USER THEN ERR_FILE_COUNT
    ELSE IF get_total_file_size(fs, callsign) + file_size > MAX_TOTAL_SIZE_PER_USER
    THEN ERR_QUOTA
    ELSE <<>>

\* FileManager.upload_file, lines 165-176: the error it returns for a file of
\* this name and size, or nothing
UploadError(fs, filename, file_size, owner_callsign) ==
    IF validate_filename(sanitize_filename(filename)) # <<>>
    THEN validate_filename(sanitize_filename(filename))
    ELSE check_quota(fs, owner_callsign, file_size)

\* FileManager.upload_file
upload_file(w, filename, file_data, owner_callsign, access_level) ==
    IF UploadError(w.files, filename, Len(file_data), owner_callsign) # <<>> THEN w
    ELSE save_file(w, sanitize_filename(filename), file_data, Len(file_data),
                   calculate_checksum(file_data), owner_callsign,
                   IF access_level \in {"private", "public", "shared"} THEN access_level
                   ELSE "private")

\* '\nFile uploaded successfully!\nFile ID: '
TXT_UPLOADED_1 == <<10, 70, 105, 108, 101, 32, 117, 112, 108, 111, 97, 100, 101, 100, 32, 115, 117, 99, 99, 101, 115, 115, 102, 117, 108, 108, 121, 33, 10, 70, 105, 108, 101, 32, 73, 68, 58, 32>>
\* '\nFilename: '
TXT_UPLOADED_2 == <<10, 70, 105, 108, 101, 110, 97, 109, 101, 58, 32>>
\* '\n[...]\n> '
TXT_UPLOADED_3 == <<10, 91, 46, 46, 46, 93, 10, 62, 32>>
\* '\nDownload complete!\n> '
TXT_DOWNLOAD_DONE == <<10, 68, 111, 119, 110, 108, 111, 97, 100, 32, 99, 111, 109, 112, 108, 101, 116, 101, 33, 10, 62, 32>>
\* '\nFile transfer failed or was cancelled.\n> '
TXT_XFER_FAILED == <<10, 70, 105, 108, 101, 32, 116, 114, 97, 110, 115, 102, 101, 114, 32, 102, 97, 105, 108, 101, 100, 32, 111, 114, 32, 119, 97, 115, 32, 99, 97, 110, 99, 101, 108, 108, 101, 100, 46, 10, 62, 32>>

\* PacketClaude._on_yapp_data, lines 1027-1049: the upload is complete
UploadComplete(w, c, transfer, remote_address) ==
    SetYappMode(
        IF UploadError(w.files, transfer.header.filename, Len(transfer.file_data),
                       remote_address) # <<>>
        THEN SendToStation(w, c, TXT_UPLOAD_ERROR
                 \o UploadError(w.files, transfer.header.filename,
                                Len(transfer.file_data), remote_address)
                 \o TXT_ERROR_END)
        ELSE SendToStation(upload_file(w, transfer.header.filename, transfer.file_data,
                                       remote_address, "private"),
                           c, TXT_UPLOADED_1 \o Str(w.file_seq + 1) \o TXT_UPLOADED_2
                              \o transfer.header.filename \o TXT_UPLOADED_3),
        c, FALSE)

\* PacketClaude._on_yapp_data, lines 1021-1064: after handle_yapp_packet
AfterYappPacket(w, c, remote_address) ==
    IF ~Has(w.transfers, remote_address) THEN w
    ELSE IF w.transfers[remote_address].state = "complete"
    THEN IF w.transfers[remote_address].is_upload
         THEN UploadComplete(w, c, w.transfers[remote_address], remote_address)
         ELSE SetYappMode(SendToStation(w, c, TXT_DOWNLOAD_DONE), c, FALSE)
    ELSE IF w.transfers[remote_address].state = "error"
    THEN SetYappMode(SendToStation(w, c, TXT_XFER_FAILED), c, FALSE)
    ELSE w

\* PacketClaude._on_yapp_data
OnYappData(w, c, data) ==
    AfterYappPacket(HandleYappPacket(w, c, data), c, RemoteAddress(w, c))

(***************************************************************************)
(* The files and file_shares tables: Database.share_file, delete_file,     *)
(* check_file_access, increment_download_count, and FileManager's          *)
(* set_file_public and download_file.                                      *)
(***************************************************************************)
\* Database.get_file: the row of the id, or None
get_file(w, file_id) ==
    IF \E i \in 1..Len(w.files) : w.files[i].id = file_id
    THEN w.files[CHOOSE i \in 1..Len(w.files) : w.files[i].id = file_id]
    ELSE Null

\* UPDATE files SET ... WHERE id = ? AND owner_callsign = ?  (owner Null: WHERE id = ?)
UpdateFiles(w, file_id, owner, Change(_)) ==
    [w EXCEPT !.files =
        [i \in 1..Len(@) |->
            IF @[i].id = file_id /\ (owner = Null \/ @[i].owner_callsign = owner)
            THEN Change(@[i]) ELSE @[i]]]

\* Database.delete_file.  The share rows of the file go with it where the SQLite
\* build enforces foreign keys (cascade), and stay where it does not
delete_file(w, file_id, callsign, cascade) ==
    LET gone(row) == row.id = file_id /\ row.owner_callsign = Upper(callsign)
        deleted == \E i \in 1..Len(w.files) : gone(w.files[i])
    IN  [w EXCEPT !.files = SelectSeq(@, LAMBDA row : ~gone(row)),
                  !.shares = IF deleted /\ cascade
                             THEN SelectSeq(@, LAMBDA s : s.file_id # file_id)
                             ELSE @]

\* Database.share_file
share_file(w, file_id, owner_callsign, shared_with_callsign) ==
    IF ~\E i \in 1..Len(w.files) : /\ w.files[i].id = file_id
                                   /\ w.files[i].owner_callsign = Upper(owner_callsign)
    THEN w
    ELSE LET Shared(row) == [row EXCEPT !.access_level = "shared"]
             w1 == UpdateFiles(w, file_id, Null, Shared)
         IN  [w1 EXCEPT !.shares =
                 Append(@, [file_id |-> file_id,
                            shared_with_callsign |-> Upper(shared_with_callsign),
                            shared_by_callsign |-> Upper(owner_callsign)])]

\* FileManager.set_file_public
set_file_public(w, file_id, owner_callsign) ==
    LET file_dict == get_file(w, file_id)
        Public(row) == [row EXCEPT !.access_level = "public"]
    IN  IF file_dict = Null THEN w
        ELSE IF file_dict.owner_callsign # Upper(owner_callsign) THEN w
        ELSE UpdateFiles(w, file_id, Upper(owner_callsign), Public)

\* the comparison of check_file_access without callsign.upper()
check_file_access_cased(w, file_id, callsign) ==
    LET row == get_file(w, file_id)
    IN  IF row = Null THEN FALSE
        ELSE IF row.owner_callsign = callsign THEN TRUE
        ELSE IF row.access_level = "public" THEN TRUE
        ELSE IF row.access_level = "shared"
        THEN \E i \in 1..Len(w.shares) : /\ w.shares[i].file_id = file_id
                                         /\ w.shares[i].shared_with_callsign = callsign
        ELSE FALSE

\* Database.check_file_access
check_file_access(w, file_id, callsign) ==
    LET row == get_file(w, file_id)
        callsign_upper == Upper(callsign)
    IN  IF row = Null THEN FALSE
        ELSE IF row.owner_callsign = callsign_upper THEN TRUE
        ELSE IF row.access_level = "public" THEN TRUE
        ELSE IF row.access_level = "shared"
        THEN \E i \in 1..Len(w.shares) : /\ w.shares[i].file_id = file_id
                                         /\ w.shares[i].shared_with_callsign = callsign_upper
        ELSE FALSE

\* Database.increment_download_count
increment_download_count(w, file_id) ==
    LET Counted(row) == [row EXCEPT !.download_count = @ + 1]
    IN  UpdateFiles(w, file_id, Null, Counted)

\* what FileManager.download_file returns, with the tables it leaves
Downloaded(w, file_dict, error) == [w |-> w, file_dict |-> file_dict, error |-> error]

\* 'Access denied'
TXT_ACCESS_DENIED == <<65, 99, 99, 101, 115, 115, 32, 100, 101, 110, 105, 101, 100>>
\* 'File not found'
TXT_FILE_NOT_FOUND == <<70, 105, 108, 101, 32, 110, 111, 116, 32, 102, 111, 117, 110, 100>>
\* 'File integrity check failed'
TXT_INTEGRITY_FAILED == <<70, 105, 108, 101, 32, 105, 110, 116, 101, 103, 114, 105, 116, 121, 32, 99, 104, 101, 99, 107, 32, 102, 97, 105, 108, 101, 100>>

\* download_file with the count incremented before the checksum is verified
download_file_count_first(w, file_id, callsign) ==
    IF ~check_file_access(w, file_id, callsign)
    THEN Downloaded(w, Null, TXT_ACCESS_DENIED)
    ELSE LET file_dict == get_file(w, file_id)
             w1 == increment_download_count(w, file_id)
         IN  IF file_dict = Null THEN Downloaded(w, Null, TXT_FILE_NOT_FOUND)
             ELSE IF calculate_checksum(file_dict.file_data) # file_dict.checksum
             THEN Downloaded(w1, Null, TXT_INTEGRITY_FAILED)
             ELSE Downloaded(w1, file_dict, <<>>)

\* FileManager.download_file
download_file(w, file_id, callsign) ==
    IF ~check_file_access(w, file_id, callsign)
    THEN Downloaded(w, Null, TXT_ACCESS_DENIED)
    ELSE LET file_dict == get_file(w, file_id)
         IN  IF file_dict = Null THEN Downloaded(w, Null, TXT_FILE_NOT_FOUND)
             ELSE IF calculate_checksum(file_dict.file_data) # file_dict.checksum
             THEN Downloaded(w, Null, TXT_INTEGRITY_FAILED)
             ELSE Downloaded(increment_download_count(w, file_id), file_dict, <<>>)

(***************************************************************************)
(* PacketClaude._on_data.  The handler blocks in claude_client.send_message*)
(* (main.py line 678): OnData is the handler up to that call, which leaves *)
(* the call in turn[thr]; OnDataReturn is the handler from the call's      *)
(* return.  The modelled lines are ASCII.  An exception that leaves        *)
(* _on_data is the field `raised` of what the handler returns.             *)
(***************************************************************************)
QuitWords == {L_QUIT, L_BYE, L_EXIT, L_73, L_SLASH_EXIT, L_CLOSE, L_LOGOUT, L_DISCONNECT}

\* the words of the commands and the texts of their answers
\* 'status'
L_STATUS == <<115, 116, 97, 116, 117, 115>>
\* '/files'
L_FILES == <<47, 102, 105, 108, 101, 115>>
\* '/list'
L_LIST == <<47, 108, 105, 115, 116>>
\* '/download'
L_DOWNLOAD == <<47, 100, 111, 119, 110, 108, 111, 97, 100>>
\* '/fileinfo'
L_FILEINFO == <<47, 102, 105, 108, 101, 105, 110, 102, 111>>
\* '/share'
L_SHARE == <<47, 115, 104, 97, 114, 101>>
\* '/publicfile'
L_PUBLICFILE == <<47, 112, 117, 98, 108, 105, 99, 102, 105, 108, 101>>
\* '/deletefile'
L_DELETEFILE == <<47, 100, 101, 108, 101, 116, 101, 102, 105, 108, 101>>
\* '/upload'
L_UPLOAD == <<47, 117, 112, 108, 111, 97, 100>>
\* the text of format_limit_message, its figures left out, and '\n\nSession: '
TXT_STATUS_1 == <<82, 97, 116, 101, 32, 108, 105, 109, 105, 116, 115, 58, 10, 91, 46, 46, 46, 93, 10, 10, 83, 101, 115, 115, 105, 111, 110, 58, 32>>
\* ' messages in history'
TXT_STATUS_2 == <<32, 109, 101, 115, 115, 97, 103, 101, 115, 32, 105, 110, 32, 104, 105, 115, 116, 111, 114, 121>>
\* 'No files found.\n> '
TXT_NO_FILES == <<78, 111, 32, 102, 105, 108, 101, 115, 32, 102, 111, 117, 110, 100, 46, 10, 62, 32>>
\* the text of format_file_list, its rows left out, and '\n\nUse /download <file_id> to download a file.\n> '
TXT_FILE_LIST == <<73, 68, 32, 32, 124, 32, 70, 105, 108, 101, 110, 97, 109, 101, 91, 46, 46, 46, 93, 10, 10, 85, 115, 101, 32, 47, 100, 111, 119, 110, 108, 111, 97, 100, 32, 60, 102, 105, 108, 101, 95, 105, 100, 62, 32, 116, 111, 32, 100, 111, 119, 110, 108, 111, 97, 100, 32, 97, 32, 102, 105, 108, 101, 46, 10, 62, 32>>
\* 'Usage: '
TXT_USAGE_1 == <<85, 115, 97, 103, 101, 58, 32>>
\* ' <file_id>\n> '
TXT_USAGE_FILE_ID == <<32, 60, 102, 105, 108, 101, 95, 105, 100, 62, 10, 62, 32>>
\* ' <file_id> <callsign>\n> '
TXT_USAGE_SHARE == <<32, 60, 102, 105, 108, 101, 95, 105, 100, 62, 32, 60, 99, 97, 108, 108, 115, 105, 103, 110, 62, 10, 62, 32>>
\* 'Invalid file ID. Must be a number.\n> '
TXT_INVALID_FILE_ID == <<73, 110, 118, 97, 108, 105, 100, 32, 102, 105, 108, 101, 32, 73, 68, 46, 32, 77, 117, 115, 116, 32, 98, 101, 32, 97, 32, 110, 117, 109, 98, 101, 114, 46, 10, 62, 32>>
\* 'Error: '
TXT_ERROR_COLON == <<69, 114, 114, 111, 114, 58, 32>>
\* 'File: '
TXT_PREVIEW_1 == <<70, 105, 108, 101, 58, 32>>
\* '\nSize: [...]\nNote: YAPP file transfer is only supported over AX.25.\nFile contents (text preview):\n====\n'
TXT_PREVIEW_2 == <<10, 83, 105, 122, 101, 58, 32, 91, 46, 46, 46, 93, 10, 78, 111, 116, 101, 58, 32, 89, 65, 80, 80, 32, 102, 105, 108, 101, 32, 116, 114, 97, 110, 115, 102, 101, 114, 32, 105, 115, 32, 111, 110, 108, 121, 32, 115, 117, 112, 112, 111, 114, 116, 101, 100, 32, 111, 118, 101, 114, 32, 65, 88, 46, 50, 53, 46, 10, 70, 105, 108, 101, 32, 99, 111, 110, 116, 101, 110, 116, 115, 32, 40, 116, 101, 120, 116, 32, 112, 114, 101, 118, 105, 101, 119, 41, 58, 10, 61, 61, 61, 61, 10>>
\* '\n====\n> '
TXT_PREVIEW_3 == <<10, 61, 61, 61, 61, 10, 62, 32>>
\* 'Starting download of '
TXT_STARTING_1 == <<83, 116, 97, 114, 116, 105, 110, 103, 32, 100, 111, 119, 110, 108, 111, 97, 100, 32, 111, 102, 32>>
\* '...\n'
TXT_STARTING_2 == <<46, 46, 46, 10>>
\* 'Failed to start download.\n> '
TXT_DOWNLOAD_FAILED == <<70, 97, 105, 108, 101, 100, 32, 116, 111, 32, 115, 116, 97, 114, 116, 32, 100, 111, 119, 110, 108, 111, 97, 100, 46, 10, 62, 32>>
\* the text of _handle_fileinfo_command, its fields left out, and '> '
TXT_FILE_INFO == <<10, 70, 105, 108, 101, 32, 73, 110, 102, 111, 114, 109, 97, 116, 105, 111, 110, 58, 10, 91, 46, 46, 46, 93, 10, 62, 32>>
\* 'File shared with '
TXT_SHARED_1 == <<70, 105, 108, 101, 32, 115, 104, 97, 114, 101, 100, 32, 119, 105, 116, 104, 32>>
\* '.\n> '
TXT_DOT_PROMPT == <<46, 10, 62, 32>>
\* 'File '
TXT_FILE == <<70, 105, 108, 101, 32>>
\* ' is now public.\n> '
TXT_NOW_PUBLIC == <<32, 105, 115, 32, 110, 111, 119, 32, 112, 117, 98, 108, 105, 99, 46, 10, 62, 32>>
\* ' deleted.\n> '
TXT_DELETED == <<32, 100, 101, 108, 101, 116, 101, 100, 46, 10, 62, 32>>
\* 'YAPP file upload is only supported over AX.25 connections.\n' and the second line, left out, with the prompt
TXT_UPLOAD_TELNET == <<89, 65, 80, 80, 32, 102, 105, 108, 101, 32, 117, 112, 108, 111, 97, 100, 32, 105, 115, 32, 111, 110, 108, 121, 32, 115, 117, 112, 112, 111, 114, 116, 101, 100, 32, 111, 118, 101, 114, 32, 65, 88, 46, 50, 53, 32, 99, 111, 110, 110, 101, 99, 116, 105, 111, 110, 115, 46, 10, 91, 46, 46, 46, 93, 10, 62, 32>>
\* 'Ready to receive file via YAPP. Send ENQ to start.\n'
TXT_UPLOAD_READY == <<82, 101, 97, 100, 121, 32, 116, 111, 32, 114, 101, 99, 101, 105, 118, 101, 32, 102, 105, 108, 101, 32, 118, 105, 97, 32, 89, 65, 80, 80, 46, 32, 83, 101, 110, 100, 32, 69, 78, 81, 32, 116, 111, 32, 115, 116, 97, 114, 116, 46, 10>>
\* 'Failed to start upload.\n> '
TXT_UPLOAD_FAILED == <<70, 97, 105, 108, 101, 100, 32, 116, 111, 32, 115, 116, 97, 114, 116, 32, 117, 112, 108, 111, 97, 100, 46, 10, 62, 32>>
\* 'Invalid callsign'
TXT_INVALID_SHARE_CALLSIGN == <<73, 110, 118, 97, 108, 105, 100, 32, 99, 97, 108, 108, 115, 105, 103, 110>>
\* 'Share failed (not owner or file not found)'
TXT_SHARE_FAILED == <<83, 104, 97, 114, 101, 32, 102, 97, 105, 108, 101, 100, 32, 40, 110, 111, 116, 32, 111, 119, 110, 101, 114, 32, 111, 114, 32, 102, 105, 108, 101, 32, 110, 111, 116, 32, 102, 111, 117, 110, 100, 41>>
\* 'Not file owner'
TXT_NOT_OWNER == <<78, 111, 116, 32, 102, 105, 108, 101, 32, 111, 119, 110, 101, 114>>
\* 'Update failed'
TXT_UPDATE_FAILED == <<85, 112, 100, 97, 116, 101, 32, 102, 97, 105, 108, 101, 100>>
\* 'Delete failed (not owner or file not found)'
TXT_DELETE_FAILED == <<68, 101, 108, 101, 116, 101, 32, 102, 97, 105, 108, 101, 100, 32, 40, 110, 111, 116, 32, 111, 119, 110, 101, 114, 32, 111, 114, 32, 102, 105, 108, 101, 32, 110, 111, 116, 32, 102, 111, 117, 110, 100, 41>>
\* 'Internal error. Please try again.\n> '
TXT_INTERNAL_ERROR == <<73, 110, 116, 101, 114, 110, 97, 108, 32, 101, 114, 114, 111, 114, 46, 32, 80, 108, 101, 97, 115, 101, 32, 116, 114, 121, 32, 97, 103, 97, 105, 110, 46, 10, 62, 32>>

\* str.startswith
StartsWith(s, t) == Len(s) >= Len(t) /\ SubSeq(s, 1, Len(t)) = t

\* PacketClaude._send_status: get_status and format_limit_message read the
\* queries table and change nothing
SendStatus(w, c) ==
    LET w1 == [w EXCEPT !.sessions = EnsureSession(@, RemoteAddress(w, c))]
        session == GetSession(w1.sessions, RemoteAddress(w, c))
    IN  SendToStation(w1, c, TXT_STATUS_1 \o Str(Len(session.messages)) \o TXT_STATUS_2
                             \o TXT_NL_PROMPT)

\* Database.list_files: the rows the callsign may see, filtered by access level
list_files(w, callsign, access_filter) ==
    SelectSeq(w.files,
              LAMBDA row :
                  /\ \/ row.owner_callsign = Upper(callsign)
                     \/ row.access_level = "public"
                     \/ /\ row.access_level = "shared"
                        /\ \E i \in 1..Len(w.shares) :
                              /\ w.shares[i].file_id = row.id
                              /\ w.shares[i].shared_with_callsign = Upper(callsign)
                  /\ access_filter # None => row.access_level = access_filter)

\* the access_filter _handle_files_command takes from the second word
FilesFilter(parts) ==
    IF Len(parts) >= 2 /\ Lower(parts[2]) = <<112, 117, 98, 108, 105, 99>> THEN "public"
    ELSE IF Len(parts) >= 2 /\ Lower(parts[2]) = <<112, 114, 105, 118, 97, 116, 101>>
    THEN "private"
    ELSE IF Len(parts) >= 2 /\ Lower(parts[2]) = <<115, 104, 97, 114, 101, 100>> THEN "shared"
    ELSE None

\* PacketClaude._handle_files_command
HandleFilesCommand(w, c, message) ==
    IF list_files(w, RemoteAddress(w, c), FilesFilter(Split(message))) = <<>>
    THEN SendToStation(w, c, TXT_NO_FILES)
    ELSE SendToStation(w, c, TXT_FILE_LIST)

\* the start of a file command handler: the usage text for a line of fewer than
\* n words, the text for a file id that is no number, or nothing
FileIdError(parts, n, usage) ==
    IF Len(parts) < n THEN TXT_USAGE_1 \o usage
    ELSE IF ~IsInt(parts[2]) THEN TXT_INVALID_FILE_ID
    ELSE <<>>

\* AX25ConnectionHandler.start_yapp_upload: the state it leaves, and what it returns
StartYappUpload(w, c) ==
    LET r == ManagerStartUpload(w.transfers, RemoteAddress(w, c))
        w1 == [w EXCEPT !.transfers = r.transfers]
    IN  IF r.response # <<>>
        THEN [w |-> AxSendData(SetYappMode(w1, c, TRUE), c, r.response),
              ok |-> AxConn(w1, c).state = "connected"]
        ELSE [w |-> w1, ok |-> FALSE]

\* AX25ConnectionHandler.start_yapp_download
StartYappDownload(w, c, filename, file_data) ==
    LET r == ManagerStartDownload(w.transfers, RemoteAddress(w, c), filename, file_data, 0)
        w1 == [w EXCEPT !.transfers = r.transfers]
    IN  IF r.response # <<>>
        THEN [w |-> AxSendData(SetYappMode(w1, c, TRUE), c, r.response),
              ok |-> AxConn(w1, c).state = "connected"]
        ELSE [w |-> w1, ok |-> FALSE]

\* PacketClaude._handle_download_command, from the return of download_file
DownloadCommandSend(r, c) ==
    IF r.error # <<>>
    THEN SendToStation(r.w, c, TXT_ERROR_COLON \o r.error \o TXT_NL_PROMPT)
    ELSE IF IsTelnet(c)
    THEN SendToStation(r.w, c, TXT_PREVIEW_1 \o r.file_dict.filename \o TXT_PREVIEW_2
                               \o SliceTo(r.file_dict.file_data, 500) \o TXT_PREVIEW_3)
    ELSE LET w1 == SendToStation(r.w, c, TXT_STARTING_1 \o r.file_dict.filename
                                         \o TXT_STARTING_2)
             s == StartYappDownload(w1, c, r.file_dict.filename, r.file_dict.file_data)
         IN  IF s.ok THEN s.w ELSE SendToStation(s.w, c, TXT_DOWNLOAD_FAILED)

\* PacketClaude._handle_download_command
HandleDownloadCommand(w, c, message) ==
    LET parts == Split(message)
        error == FileIdError(parts, 2, L_DOWNLOAD \o TXT_USAGE_FILE_ID)
    IN  IF error # <<>> THEN SendToStation(w, c, error)
        ELSE DownloadCommandSend(download_file(w, ToInt(parts[2]), RemoteAddress(w, c)), c)

\* FileManager.get_file_info: the error it returns, or nothing
get_file_info_error(w, file_id, callsign) ==
    IF ~check_file_access(w, file_id, callsign) THEN TXT_ACCESS_DENIED
    ELSE IF \A i \in 1..Len(list_files(w, callsign, None)) :
               list_files(w, callsign, None)[i].id # file_id
    THEN TXT_FILE_NOT_FOUND
    ELSE <<>>

\* PacketClaude._handle_fileinfo_command
HandleFileinfoCommand(w, c, message) ==
    LET parts == Split(message)
        error == FileIdError(parts, 2, L_FILEINFO \o TXT_USAGE_FILE_ID)
    IN  IF error # <<>> THEN SendToStation(w, c, error)
        ELSE IF get_file_info_error(w, ToInt(parts[2]), RemoteAddress(w, c)) # <<>>
        THEN SendToStation(w, c, TXT_ERROR_COLON
                                 \o get_file_info_error(w, ToInt(parts[2]), RemoteAddress(w, c))
                                 \o TXT_NL_PROMPT)
        ELSE SendToStation(w, c, TXT_FILE_INFO)

\* the row of the id belongs to the callsign: what Database.share_file and
\* Database.delete_file return
OwnsFile(w, file_id, callsign) ==
    \E i \in 1..Len(w.files) : /\ w.files[i].id = file_id
                               /\ w.files[i].owner_callsign = Upper(callsign)

\* PacketClaude._handle_share_command, with FileManager.share_file
HandleShareCommand(w, c, message) ==
    LET parts == Split(message)
        error == FileIdError(parts, 3, L_SHARE \o TXT_USAGE_SHARE)
    IN  IF error # <<>> THEN SendToStation(w, c, error)
        ELSE IF Len(Upper(parts[3])) > 10
        THEN SendToStation(w, c, TXT_ERROR_COLON \o TXT_INVALID_SHARE_CALLSIGN
                                 \o TXT_NL_PROMPT)
        ELSE IF OwnsFile(w, ToInt(parts[2]), RemoteAddress(w, c))
        THEN SendToStation(share_file(w, ToInt(parts[2]), RemoteAddress(w, c),
                                      Upper(parts[3])),
                           c, TXT_SHARED_1 \o Upper(parts[3]) \o TXT_DOT_PROMPT)
        ELSE SendToStation(w, c, TXT_ERROR_COLON \o TXT_SHARE_FAILED \o TXT_NL_PROMPT)

\* FileManager.set_file_public: the error it returns, or nothing
set_file_public_error(w, file_id, owner_callsign) ==
    IF get_file(w, file_id) = Null THEN TXT_FILE_NOT_FOUND
    ELSE IF get_file(w, file_id).owner_callsign # Upper(owner_callsign) THEN TXT_NOT_OWNER
    ELSE <<>>

\* PacketClaude._handle_publicfile_command
HandlePublicfileCommand(w, c, message) ==
    LET parts == Split(message)
        error == FileIdError(parts, 2, L_PUBLICFILE \o TXT_USAGE_FILE_ID)
    IN  IF error # <<>> THEN SendToStation(w, c, error)
        ELSE IF set_file_public_error(w, ToInt(parts[2]), RemoteAddress(w, c)) # <<>>
        THEN SendToStation(w, c, TXT_ERROR_COLON
                                 \o set_file_public_error(w, ToInt(parts[2]),
                                                          RemoteAddress(w, c))
                                 \o TXT_NL_PROMPT)
        ELSE SendToStation(set_file_public(w, ToInt(parts[2]), RemoteAddress(w, c)),
                           c, TXT_FILE \o Str(ToInt(parts[2])) \o TXT_NOW_PUBLIC)

\* PacketClaude._handle_deletefile_command, with FileManager.delete_file; the
\* rows of file_shares go with the file where SQLite enforces foreign keys
HandleDeletefileCommand(w, c, message, cascade) ==
    LET parts == Split(message)
        error == FileIdError(parts, 2, L_DELETEFILE \o TXT_USAGE_FILE_ID)
    IN  IF error # <<>> THEN SendToStation(w, c, error)
        ELSE IF OwnsFile(w, ToInt(parts[2]), RemoteAddress(w, c))
        THEN SendToStation(delete_file(w, ToInt(parts[2]), RemoteAddress(w, c), cascade),
                           c, TXT_FILE \o Str(ToInt(parts[2])) \o TXT_DELETED)
        ELSE SendToStation(w, c, TXT_ERROR_COLON \o TXT_DELETE_FAILED \o TXT_NL_PROMPT)

\* PacketClaude._handle_upload_command
HandleUploadCommand(w, c) ==
    IF IsTelnet(c) THEN SendToStation(w, c, TXT_UPLOAD_TELNET)
    ELSE LET s == StartYappUpload(SendToStation(w, c, TXT_UPLOAD_READY), c)
         IN  IF s.ok THEN s.w ELSE SendToStation(s.w, c, TXT_UPLOAD_FAILED)

\* lines 624-645: the file commands
FileCommand(w, thr, c, message, env) ==
    LET lower == Lower(message)
    IN  IF StartsWith(lower, L_FILES) \/ StartsWith(lower, L_LIST)
        THEN HandleFilesCommand(w, c, message)
        ELSE IF StartsWith(lower, L_DOWNLOAD) THEN HandleDownloadCommand(w, c, message)
        ELSE IF StartsWith(lower, L_FILEINFO) THEN HandleFileinfoCommand(w, c, message)
        ELSE IF StartsWith(lower, L_SHARE) THEN HandleShareCommand(w, c, message)
        ELSE IF StartsWith(lower, L_PUBLICFILE) THEN HandlePublicfileCommand(w, c, message)
        ELSE IF StartsWith(lower, L_DELETEFILE)
        THEN HandleDeletefileCommand(w, c, message, env.cascade)
        ELSE HandleUploadCommand(w, c)

\* the words the file commands start with
FileWords ==
    {L_FILES, L_LIST, L_DOWNLOAD, L_FILEINFO, L_SHARE, L_PUBLICFILE, L_DELETEFILE, L_UPLOAD}

\* lines 647-682: the rate check, the typing indicator, the call
Query(w, thr, c, message) ==
    LET remote_address == RemoteAddress(w, c)
        check == check_limit(w.rows, remote_address)
    IN  IF ~check.allowed
        THEN SendToStation(w, c, TXT_RATE_1 \o check.reason \o TXT_RATE_2)
        ELSE LET history == GetSession(w.sessions, remote_address).messages
                 w1 == SendToStation(w, c, TXT_TYPING)
             IN  [w1 EXCEPT !.turn[thr] =
                     [c |-> c, message |-> message, history |-> history]]

\* lines 603-645: the special commands
Command(w, thr, c, message, env) ==
    LET lower == Lower(message)
    IN  IF lower \in {L_HELP, L_QMARK}
        THEN SendToStation(w, c, TXT_HELP \o TXT_PROMPT)
        ELSE IF lower \in QuitWords
        THEN LET w1 == SendToStation(w, c, TXT_GOODBYE)
             IN  IF IsTelnet(c) THEN TelnetDisconnect(w1, c.sock) ELSE AxDisconnect(w1, c)
        ELSE IF lower = L_STATUS THEN SendStatus(w, c)
        ELSE IF lower \in {L_CLEAR, L_RESET}
        THEN SendToStation([w EXCEPT !.sessions =
                                clear_session(@, RemoteAddress(w, c))],
                           c, TXT_CLEARED)
        ELSE IF \E word \in FileWords : StartsWith(lower, word)
        THEN FileCommand(w, thr, c, message, env)
        ELSE Query(w, thr, c, message)

\* a dispatcher without the gate: a line that is no callsign is dispatched as a
\* command whether or not the session is authenticated
OnDataUngated(w, thr, c, data, env) ==
    LET message == Strip(data)
    IN  IF message = <<>> THEN w
        ELSE LET remote_address == RemoteAddress(w, c)
                 w1 == [w EXCEPT !.sessions = EnsureSession(@, remote_address)]
             IN  IF ~GetSession(w1.sessions, remote_address).authenticated
                    /\ MatchCallsign(Strip(Upper(message)))
                 THEN AuthenticateCallsign(w1, c, Strip(Upper(message)), env)
                 ELSE Command(w1, thr, c, message, env)

\* lines 576-599, then the rest
OnData(w, thr, c, data, env) ==
    LET message == Strip(data)
    IN  IF message = <<>> THEN w
        ELSE LET remote_address == RemoteAddress(w, c)
                 w1 == [w EXCEPT !.sessions = EnsureSession(@, remote_address)]
             IN  IF ~GetSession(w1.sessions, remote_address).authenticated
                 THEN LET callsign == Strip(Upper(message))
                      IN  IF ~MatchCallsign(callsign)
                          THEN SendToStation(w1, c, TXT_INVALID_CALLSIGN)
                          ELSE AuthenticateCallsign(w1, c, callsign, env)
                 ELSE Command(w1, thr, c, message, env)

\* lines 719-723
Truncated(response_text) ==
    IF Len(response_text) > MAX_RESPONSE_CHARS
    THEN Slice(response_text, 1, MAX_RESPONSE_CHARS)
         \o TXT_TRUNCATED_1 \o Str(MAX_RESPONSE_CHARS) \o TXT_TRUNCATED_2
    ELSE response_text

\* what claude_client.send_message can return
LlmResults ==
    {[error |-> <<>>, text |-> LLM_REPLY, raises |-> {}],
     [error |-> LLM_ERROR, text |-> <<>>, raises |-> {}]}

\* the except clause of _on_data: activity_logger.log_error, which writes to the
\* errors table, and then the text for the station
DataHandlingError(w, c, raises) ==
    IF "log_error" \in raises THEN [w EXCEPT !.raised = TRUE]
    ELSE SendToStation(w, c, TXT_INTERNAL_ERROR)

\* lines 684-739: the handler from the return of send_message.  result.raises
\* names the database calls that raise while the handler runs on
OnDataReturn(w, thr, result) ==
    LET call == w.turn[thr]
        c == call.c
        w0 == [w EXCEPT !.turn[thr] = Null]
        remote_address == RemoteAddress(w0, c)
    IN  IF result.error # <<>>
        THEN IF result.raises # {} THEN DataHandlingError(w0, c, result.raises)
             ELSE SendToStation([w0 EXCEPT !.rows =
                                     Append(@, QueryRow(remote_address, result.error))],
                                c, TXT_ERROR_1 \o result.error \o TXT_ERROR_2)
        ELSE LET ss == add_assistant_message(
                           add_user_message(w0.sessions, remote_address, call.message),
                           remote_address, result.text)
             IN  IF "log_query" \in result.raises
                 THEN DataHandlingError([w0 EXCEPT !.sessions = ss], c, result.raises)
                 ELSE SendToStation([w0 EXCEPT !.sessions = ss,
                                               !.rows = Append(@, QueryRow(remote_address, <<>>))],
                                    c, Truncated(result.text) \o TXT_NL_PROMPT)

(***************************************************************************)
(* The telnet server: TelnetServer._accept_loop, _receive_loop,            *)
(* _parse_telnet_data and _parse_environ.  The accept loop and every       *)
(* connection's receive loop run on threads of their own; tconn[t] holds   *)
(* the TelnetConnection of socket t together with the position of the two  *)
(* threads that work on it: `accepting` from the start of the receive      *)
(* thread to the return of on_connect in the accept loop, `receiving`      *)
(* while the receive loop has not ended.                                   *)
(***************************************************************************)
IAC == 255
WILL == 251
WONT == 252
DO == 253
DONT == 254
SB == 250
SE == 240
TELOPT_NEW_ENVIRON == 39
ENV_VAR == 0
ENV_VALUE == 1
ENV_ESC == 2
ENV_USERVAR == 3

\* 'USER'
ENV_USER == <<85, 83, 69, 82>>
\* 'LOGNAME'
ENV_LOGNAME == <<76, 79, 71, 78, 65, 77, 69>>
\* b'\r\n'
CRLF == <<13, 10>>

\* data.find(bytes([b]), from): Python's index of the first b at or after from, or -1
FindByte(data, b, from) ==
    LET hits == {j \in from..(Len(data) - 1) : data[j + 1] = b}
    IN  IF hits = {} THEN 0 - 1 ELSE CHOOSE j \in hits : \A k \in hits : j <= k

\* buffer.find(sub): Python's index of the first occurrence of sub, or -1
FindSub(s, sub) ==
    LET hits == {j \in 0..(Len(s) - Len(sub)) : SubSeq(s, j + 1, j + Len(sub)) = sub}
    IN  IF hits = {} THEN 0 - 1 ELSE CHOOSE j \in hits : \A k \in hits : j <= k

\* _parse_environ, the update of the connection and of the table for a login name
EnvironLogin(w, t, var_value) ==
    LET w1 == set_callsign(w, t, var_value)
    IN  IF Has(w1.ttable, w1.tconn[t].addr)
        THEN [w1 EXCEPT !.ttable = Put(Del(@, w1.tconn[t].addr),
                                       TelnetRemoteAddress(w1.tconn[t]), t)]
        ELSE w1

\* the end of a name or of a value that starts at i: the index of the next VAR,
\* VALUE, ESC or USERVAR byte, or the length
EnvRun(env_data, i) ==
    LET stops == {j \in i..(Len(env_data) - 1) :
                     env_data[j + 1] \in {ENV_VAR, ENV_VALUE, ENV_ESC, ENV_USERVAR}}
    IN  IF stops = {} THEN (IF i > Len(env_data) THEN i ELSE Len(env_data))
        ELSE CHOOSE j \in stops : \A k \in stops : j <= k

\* one variable of _parse_environ, whose name starts at name_start and ends at name_end
EnvironVar(env_data, name_start, name_end) ==
    LET has_value == name_end < Len(env_data) /\ env_data[name_end + 1] = ENV_VALUE
        value_end == IF has_value THEN EnvRun(env_data, name_end + 1) ELSE name_end
    IN  [var_name |-> DecodeAscii(Slice(env_data, name_start + 1, name_end)),
         var_value |-> IF has_value
                       THEN DecodeAscii(Slice(env_data, name_end + 2, value_end))
                       ELSE <<>>,
         next |-> value_end]

\* TelnetServer._parse_environ, from index i
RECURSIVE ParseEnvironFrom(_, _, _, _)
ParseEnvironFrom(w, t, env_data, i) ==
    IF i >= Len(env_data) THEN w
    ELSE IF env_data[i + 1] \in {ENV_VAR, ENV_USERVAR}
    THEN LET v == EnvironVar(env_data, i + 1, EnvRun(env_data, i + 1))
         IN  IF Upper(v.var_name) \in {ENV_USER, ENV_LOGNAME} /\ v.var_value # <<>>
             THEN EnvironLogin(w, t, v.var_value)
             ELSE ParseEnvironFrom(w, t, env_data, v.next)
    ELSE ParseEnvironFrom(w, t, env_data, i + 1)

\* TelnetServer._parse_environ
ParseEnviron(w, t, env_data) == ParseEnvironFrom(w, t, env_data, 0)

\* TelnetServer._parse_telnet_data, from index i: the state left and the data
\* with the telnet sequences removed
RECURSIVE ParseTelnetFrom(_, _, _, _, _)
ParseTelnetFrom(w, t, data, i, result) ==
    IF i >= Len(data) THEN [w |-> w, data |-> result]
    ELSE IF data[i + 1] # IAC
    THEN ParseTelnetFrom(w, t, data, i + 1, Append(result, data[i + 1]))
    ELSE IF i + 1 >= Len(data)
    THEN ParseTelnetFrom(w, t, data, i + 1, result)
    ELSE IF data[i + 2] = SB /\ i + 2 < Len(data) /\ FindByte(data, SE, i + 3) # 0 - 1
    THEN ParseTelnetFrom(
             IF data[i + 3] = TELOPT_NEW_ENVIRON
             THEN ParseEnviron(w, t, Slice(data, i + 4, FindByte(data, SE, i + 3)))
             ELSE w,
             t, data, FindByte(data, SE, i + 3) + 1, result)
    ELSE IF data[i + 2] \in {WILL, WONT, DO, DONT}
    THEN ParseTelnetFrom(w, t, data, i + 3, result)
    ELSE IF data[i + 2] = IAC
    THEN ParseTelnetFrom(w, t, data, i + 2, Append(result, IAC))
    ELSE ParseTelnetFrom(w, t, data, i + 2, result)

\* TelnetServer._parse_telnet_data
ParseTelnetData(w, t, data) ==
    IF \A k \in 1..Len(data) : data[k] # IAC THEN [w |-> w, data |-> data]
    ELSE ParseTelnetFrom(w, t, data, 0, <<>>)

\* the split of the receive loop: at the first '\r\n' if the buffer has one, else
\* at the first '\n', else at the first '\r'
SplitLine(buffer) ==
    IF FindSub(buffer, CRLF) # 0 - 1
    THEN [line |-> Slice(buffer, 1, FindSub(buffer, CRLF)),
          rest |-> Slice(buffer, FindSub(buffer, CRLF) + 3, Len(buffer))]
    ELSE IF FindSub(buffer, <<10>>) # 0 - 1
    THEN [line |-> Slice(buffer, 1, FindSub(buffer, <<10>>)),
          rest |-> Slice(buffer, FindSub(buffer, <<10>>) + 2, Len(buffer))]
    ELSE [line |-> Slice(buffer, 1, FindSub(buffer, <<13>>)),
          rest |-> Slice(buffer, FindSub(buffer, <<13>>) + 2, Len(buffer))]

\* the end of the receive loop: its finally clause
ReceiveLoopEnd(w, t) ==
    [TelnetHandleDisconnect(w, t) EXCEPT !.tconn[t].receiving = FALSE]

\* the receive loop once the buffer holds no line: back to recv() while the
\* server is running and the connection is CONNECTED
ReceiveLoopTest(w, t) ==
    IF w.running /\ w.tconn[t].state = "connected" THEN w ELSE ReceiveLoopEnd(w, t)

\* the inner loop of the receive loop, line by line; a line whose handler is in
\* the LLM call leaves the loop where it is
RECURSIVE ProcessLines(_, _, _)
AfterLine(w, t, env) ==
    IF w.raised THEN ReceiveLoopEnd([w EXCEPT !.raised = FALSE], t)
    ELSE IF w.turn[t] # Null THEN w
    ELSE ProcessLines(w, t, env)

TakeLine(w, t, line, env) ==
    IF line = <<>> THEN ProcessLines(w, t, env)
    ELSE AfterLine(OnData(FireLine(w, "on_data", TelnetRef(t), line), t, TelnetRef(t),
                          line, env),
                   t, env)

ProcessLines(w, t, env) ==
    IF FindSub(w.tconn[t].buffer, <<10>>) = 0 - 1 /\ FindSub(w.tconn[t].buffer, <<13>>) = 0 - 1
    THEN ReceiveLoopTest(w, t)
    ELSE TakeLine([w EXCEPT !.tconn[t].buffer = SplitLine(@).rest], t,
                  SplitLine(w.tconn[t].buffer).line, env)

\* the receive loop from the return of recv() with data
Buffered(parsed, t) ==
    [parsed.w EXCEPT !.tconn[t].buffer = @ \o parsed.data, !.tconn[t].idle = 0]

ReceiveData(w, t, data, env) ==
    ProcessLines(Buffered(ParseTelnetData(w, t, data), t), t, env)

\* the accept loop from accept() to the start of the receive thread
AcceptConnection(w, t, address) ==
    LET w1 == [w EXCEPT !.tconn[t] =
                  [state |-> "connected", callsign |-> <<>>, addr |-> address,
                   buffer |-> <<>>, accepting |-> TRUE, receiving |-> TRUE,
                   idle |-> 0]]
        w2 == Emit(w1, [kind |-> "tcp", sock |-> t,
                        data |-> <<IAC, DO, TELOPT_NEW_ENVIRON>>])
    IN  [w2 EXCEPT !.ttable = Put(@, address, t)]

\* the accept loop's call of on_connect
NotifyConnect(w, t, env) ==
    OnConnect([w EXCEPT !.tconn[t].accepting = FALSE], TelnetRef(t), env)


(***************************************************************************)
(* AX25ConnectionHandler: the handling of an incoming frame                *)
(***************************************************************************)
\* config.station_callsign, as AX25ConnectionHandler.__init__ keeps it
local_callsign == W2ASM

\* the thread of PacketClaude._run, which reads the TNC
KissThread == "kiss"

\* AX25ConnectionHandler._is_yapp_packet
is_yapp_packet(data) ==
    /\ data # <<>>
    /\ data[1] \in {YAPP_ENQ, YAPP_ACK, YAPP_NAK, YAPP_SOH, YAPP_STX, YAPP_ETX,
                    YAPP_EOT, YAPP_CAN}

\* the AX25Connection _handle_sabm and _handle_ui build from a frame
ConnFromFrame(frame) ==
    AX25Connection(Strip(frame.source.callsign), frame.source.ssid,
                   Strip(frame.destination.callsign), frame.destination.ssid)

\* the answer to a frame, from the address the frame was sent to
UaFor(frame) ==
    create_ua_frame(Strip(frame.source.callsign), Strip(frame.destination.callsign),
                    frame.source.ssid, frame.destination.ssid)

DmFor(frame) ==
    create_dm_frame(Strip(frame.source.callsign), Strip(frame.destination.callsign),
                    frame.source.ssid, frame.destination.ssid)

\* AX25ConnectionHandler._handle_sabm
HandleSabm(w, frame, remote_key, env) ==
    LET w1 == IF ~Has(w.connections, remote_key)
              THEN [w EXCEPT !.connections = Put(@, remote_key, ConnFromFrame(frame))]
              ELSE w
        w2 == [w1 EXCEPT !.connections[remote_key].state = "connected",
                         !.connections[remote_key].idle = 0]
        w3 == SendFrame(w2, UaFor(frame))
        c  == AxRef(remote_key, w3.connections[remote_key])
    IN  OnConnect(Fire(w3, "on_connect", c), c, env)

\* AX25ConnectionHandler._handle_disc
HandleDisc(w, frame, remote_key) ==
    LET w1 == SendFrame(w, UaFor(frame))
    IN  IF Has(w1.connections, remote_key)
        THEN LET w2 == [w1 EXCEPT !.connections[remote_key].state = "disconnected"]
                 c  == AxRef(remote_key, w2.connections[remote_key])
                 w3 == OnDisconnect(Fire(w2, "on_disconnect", c), c)
             IN  [w3 EXCEPT !.connections = Del(@, remote_key)]
        ELSE w1

\* AX25ConnectionHandler._handle_ui
HandleUi(w, frame, remote_key, env) ==
    LET conn == IF ~Has(w.connections, remote_key) THEN ConnFromFrame(frame)
                ELSE [w.connections[remote_key] EXCEPT !.idle = 0]
        c == AxRef(remote_key, conn)
        w1 == TouchAx(w, c)
    IN  IF frame.info # <<>>
        THEN OnData(Fire(w1, "on_data", c), KissThread, c, frame.info, env)
        ELSE w1

\* AX25ConnectionHandler._handle_data
HandleData(w, frame, remote_key, env) ==
    IF ~Has(w.connections, remote_key) THEN SendFrame(w, DmFor(frame))
    ELSE LET conn == w.connections[remote_key]
             c == AxRef(remote_key, [conn EXCEPT !.idle = 0])
             w1 == TouchAx(w, c)
         IN  IF conn.state # "connected" THEN w
             ELSE IF frame.info # <<>> /\ is_yapp_packet(frame.info)
             THEN OnYappData(Fire(SetYappMode(w1, c, TRUE), "on_yapp_data", c), c, frame.info)
             ELSE IF frame.info # <<>>
             THEN OnData(Fire(w1, "on_data", c), KissThread, c, frame.info, env)
             ELSE w1

\* AX25ConnectionHandler.handle_incoming_frame
HandleIncomingFrame(w, frame, env) ==
    IF Strip(frame.destination.callsign) # local_callsign THEN w
    ELSE LET remote_key == WithSsid(Strip(frame.source.callsign), frame.source.ssid)
         IN  IF is_sabm_frame(frame) THEN HandleSabm(w, frame, remote_key, env)
             ELSE IF is_disc_frame(frame) THEN HandleDisc(w, frame, remote_key)
             ELSE IF is_ui_frame(frame) THEN HandleUi(w, frame, remote_key, env)
             ELSE HandleData(w, frame, remote_key, env)

\* one turn of the loop of PacketClaude._run on the bytes of a frame read from the
\* TNC: decode, then handle; a frame that does not decode is logged and dropped
RunFrame(w, frame_data, env) ==
    LET d == FrameDecode(frame_data)
    IN  IF d.ok THEN HandleIncomingFrame(w, d.frame, env) ELSE w

(***************************************************************************)
(* SpecLink: the thread of PacketClaude._run reading frames of two AX.25   *)
(* peers from the TNC                                                      *)
(***************************************************************************)
\* the most rows the queries table grows to
MaxRows == 2

\* an I frame (N(S) = 0, N(R) = 0) as a peer's TNC sends it
IFrame(destination, source, info, dest_ssid, source_ssid) ==
    Frame(Address(destination, dest_ssid), Address(source, source_ssid), <<>>,
          0, PID_NO_L3, info)

\* a frame relayed by the digipeater RELAY
Via(frame) == [frame EXCEPT !.digipeaters = <<Address(RELAY, 0)>>]

\* the lines the peers type
LinkLines == {L_HELLO \o <<13>>, L_CLEAR \o <<13>>, L_QUIT \o <<13>>}

\* the frames the peers send: W1ABC talks to W2ASM-10 and to W2ASM-11, K0ASM-5 to W2ASM-10
LinkFrames ==
    { Via(create_sabm_frame(W2ASM, W1ABC, 10, 0)),
      Via(create_sabm_frame(W2ASM, W1ABC, 11, 0)),
      create_sabm_frame(W2ASM, W1ABC, 10, 0),
      Via(create_sabm_frame(W2ASM, K0ASM, 10, 5)),
      Via(create_sabm_frame(RELAY, W1ABC, 0, 0)),
      Via(create_disc_frame(W2ASM, W1ABC, 10, 0)),
      create_ui_frame(W2ASM, K0ASM, L_HELLO \o <<13>>, 10, 5) }
    \cup { IFrame(W2ASM, W1ABC, l, 10, 0) : l \in LinkLines }
    \cup { IFrame(W2ASM, K0ASM, L_HELLO \o <<13>>, 10, 5) }

\* the program after __init__, over a database that holds the files fs;
\* socks are the telnet connections still to be accepted
ProgInitOver(socks, fs) ==
    /\ running = TRUE
    /\ connections = EmptyDict
    /\ transfers = EmptyDict
    /\ files = fs
    /\ shares = <<>>
    /\ file_seq = Len(fs)
    /\ sessions = EmptyDict
    /\ rows = <<>>
    /\ turn = [th \in {KissThread} \cup socks |-> Null]
    /\ tconn = [t \in socks |->
                   [state |-> "new", callsign |-> <<>>, addr |-> <<>>, buffer |-> <<>>,
                    accepting |-> FALSE, receiving |-> FALSE, idle |-> 0]]
    /\ ttable = EmptyDict
    /\ sent = <<>>
    /\ fired = <<>>
    /\ handled = NoInput
    /\ log = <<>>

\* the program after __init__ over a new database
ProgInit(socks) == ProgInitOver(socks, <<>>)

InitLink == FrameIdle /\ ProgInit({})

\* the loop of _run reads the bytes of a frame and handles them; the thread is in
\* the loop only while it is not inside claude_client.send_message
KissFrame(f, env) ==
    /\ turn[KissThread] = Null
    /\ LET frame_data == FrameEncode(f)
       IN  /\ Install(RunFrame(World, frame_data, env))
           /\ handled' = [kind |-> "frame", frame |-> f,
                          decoded |-> FrameDecode(frame_data).ok]
    /\ UNCHANGED frameVars

KissStep == \E f \in LinkFrames, env \in Envs : KissFrame(f, env)

\* claude_client.send_message returns to the thread that called it
LlmReturn(thr, result) ==
    /\ turn[thr] # Null
    /\ Len(rows) < MaxRows
    /\ Install(OnDataReturn(World, thr, result))
    /\ handled' = [kind |-> "llm", thr |-> thr, result |-> result]
    /\ UNCHANGED frameVars

LlmStep == \E thr \in DOMAIN turn, result \in LlmResults : LlmReturn(thr, result)

NextLink == KissStep \/ LlmStep

SpecLink == InitLink /\ [][NextLink]_vars

(***************************************************************************)
(* C1: for every SABM that handle_incoming_frame receives for the local    *)
(* callsign, sent by peer P to local address L: exactly one UA is emitted, *)
(* with destination P and source L; on_connect fires once; afterwards the  *)
(* entry under P's key is CONNECTED with local address L, also when an     *)
(* entry for P existed before; and the UI frames sent to P are sourced     *)
(* from L.                                                                 *)
(***************************************************************************)
SabmHandled(h) ==
    /\ h.kind = "frame"
    /\ h.decoded
    /\ is_sabm_frame(h.frame)
    /\ Strip(h.frame.destination.callsign) = local_callsign

FramesSent(out, P(_)) == {i \in 1..Len(out) : out[i].kind = "frame" /\ P(out[i].frame)}

C1_SabmCreateOrReplace ==
    [][SabmHandled(handled') =>
        LET f == handled'.frame
            key == WithSsid(Strip(f.source.callsign), f.source.ssid)
        IN  /\ Cardinality(FramesSent(sent', is_ua_frame)) = 1
            /\ \A i \in FramesSent(sent', is_ua_frame) :
                  /\ sent'[i].frame.destination = Address(Strip(f.source.callsign), f.source.ssid)
                  /\ sent'[i].frame.source = Address(Strip(f.destination.callsign),
                                                     f.destination.ssid)
            /\ Cardinality({i \in 1..Len(fired') : fired'[i].name = "on_connect"}) = 1
            /\ Has(connections', key)
            /\ connections'[key].state = "connected"
            /\ connections'[key].local_callsign = Strip(f.destination.callsign)
            /\ connections'[key].local_ssid = f.destination.ssid
            /\ \A i \in FramesSent(sent', is_ui_frame) :
                  sent'[i].frame.source = Address(Strip(f.destination.callsign),
                                                  f.destination.ssid)
    ]_vars

\* what the code does do: a SABM is answered from L and leaves a CONNECTED entry,
\* whose local address is that of the SABM which created the entry
SabmAnsweredAndConnected ==
    [][SabmHandled(handled') =>
        LET f == handled'.frame
            key == WithSsid(Strip(f.source.callsign), f.source.ssid)
        IN  /\ Cardinality(FramesSent(sent', is_ua_frame)) = 1
            /\ \A i \in FramesSent(sent', is_ua_frame) : sent'[i].frame = UaFor(f)
            /\ Has(connections', key)
            /\ connections'[key].state = "connected"
            /\ Has(connections, key) =>
                  /\ connections'[key].local_callsign = connections[key].local_callsign
                  /\ connections'[key].local_ssid = connections[key].local_ssid
    ]_vars

(***************************************************************************)
(* C10: the KISS read loop does not block on LLM calls: while the LLM turn *)
(* of one AX.25 peer's line is in flight, the loop can read and handle a   *)
(* frame (a SABM of a second peer is answered before the turn completes).  *)
(***************************************************************************)
C10_ReadLoopNotBlocked == turn[KissThread] # Null => ENABLED KissStep

\* what the code does do: while a turn of the read loop's thread is in flight,
\* every step is the return of an LLM call
BlockedWhileTurnInFlight ==
    [][turn[KissThread] # Null => handled'.kind = "llm"]_vars

(***************************************************************************)
(* SpecYapp: the peer W1ABC, connected to W2ASM-10, sends YAPP packets in  *)
(* I frames                                                                *)
(***************************************************************************)
\* 't.txt'
FN_T_TXT == <<116, 46, 116, 120, 116>>
\* 'hel'
DATA_HEL == <<104, 101, 108>>
\* 'lo'
DATA_LO == <<108, 111>>

\* the header of the upload: 't.txt', 5 bytes
UploadHeader == [filename |-> FN_T_TXT, file_size |-> 5, timestamp |-> 0]

\* the packets the peer sends: ENQ, ACK, NAK, CAN, ETX, the header, a header of
\* NULs, and the data blocks 'hel', 'lo' and 'hello' padded to a full block
YappPackets ==
    { <<YAPP_ENQ>>, <<YAPP_ACK>>, <<YAPP_NAK>>, <<YAPP_CAN>>, <<YAPP_ETX>>,
      <<YAPP_SOH>> \o HeaderEncode(UploadHeader),
      <<YAPP_SOH>> \o Nuls(BLOCK_SIZE),
      <<YAPP_STX>> \o DATA_HEL,
      <<YAPP_STX>> \o DATA_LO,
      <<YAPP_STX>> \o DATA_HEL \o DATA_LO \o Nuls(BLOCK_SIZE - 5) }

YappFrames ==
    { Via(create_sabm_frame(W2ASM, W1ABC, 10, 0)),
      Via(create_disc_frame(W2ASM, W1ABC, 10, 0)) }
    \cup { IFrame(W2ASM, W1ABC, p, 10, 0) : p \in YappPackets }

InitYapp == FrameIdle /\ ProgInit({})

YappStep == \E f \in YappFrames, env \in Envs : KissFrame(f, env)

NextYapp == YappStep

SpecYapp == InitYapp /\ [][NextYapp]_vars

(***************************************************************************)
(* C3: YAPP upload handshake.  A peer with no registered transfer sends    *)
(* ENQ and is answered ACK; when its next packet is SOH with a 128-byte    *)
(* header that parses, it is answered ACK and the transfer is in the       *)
(* receive-data state, no packet being needed in between; each following   *)
(* STX block is answered ACK, until the accumulated bytes reach the        *)
(* declared size and the transfer is COMPLETE.                             *)
(***************************************************************************)
\* the last step handled a YAPP packet of a connected peer
YappHandled(h, conns) ==
    /\ h.kind = "frame"
    /\ h.decoded
    /\ ~is_sabm_frame(h.frame) /\ ~is_disc_frame(h.frame) /\ ~is_ui_frame(h.frame)
    /\ is_yapp_packet(h.frame.info)
    /\ LET key == WithSsid(Strip(h.frame.source.callsign), h.frame.source.ssid)
       IN  Has(conns, key) /\ conns[key].state = "connected"

\* the address the dispatcher knows the sender of a frame by
SenderOf(f) ==
    AxRemoteAddress(AX25Connection(Strip(f.source.callsign), f.source.ssid, <<>>, 0))

\* the packets sent to the peer in UI frames
Answers(out) == {out[i].frame.info : i \in FramesSent(out, is_ui_frame)}

IsHeaderPacket(p) ==
    /\ p[1] = YAPP_SOH
    /\ Len(p) >= BLOCK_SIZE + 1
    /\ HeaderDecode(Slice(p, 2, BLOCK_SIZE + 1)) # Null

C3_UploadHandshake ==
    [][YappHandled(handled', connections) =>
        LET p == handled'.frame.info
            who == SenderOf(handled'.frame)
        IN  /\ (p[1] = YAPP_ENQ /\ ~Has(transfers, who)) =>
                  Answers(sent') = {<<YAPP_ACK>>}
            /\ ( /\ IsHeaderPacket(p)
                 /\ YappHandled(handled, connections)
                 /\ handled.frame.info[1] = YAPP_ENQ
                 /\ Answers(sent) = {<<YAPP_ACK>>}
                 /\ Has(transfers, who) ) =>
                  /\ Answers(sent') = {<<YAPP_ACK>>}
                  /\ Has(transfers', who)
                  /\ transfers'[who].state = "receiving_data"
            /\ ( /\ p[1] = YAPP_STX /\ Len(p) >= 2
                 /\ Has(transfers, who)
                 /\ transfers[who].state = "receiving_data" ) =>
                  /\ Answers(sent') = {<<YAPP_ACK>>}
                  /\ Len(transfers[who].file_data) + Len(p) - 1
                        >= transfers[who].header.file_size =>
                        (Has(transfers', who) => transfers'[who].state = "complete")
    ]_vars

\* what the code does do: after its ACK to the ENQ the transfer waits for an ACK
\* of the peer, and until that ACK a header is not answered and changes nothing
HeaderIgnoredUntilPeerAck ==
    [][YappHandled(handled', connections) =>
        LET p == handled'.frame.info
            who == SenderOf(handled'.frame)
        IN  /\ (p[1] = YAPP_ENQ /\ ~Has(transfers, who)) =>
                  /\ Answers(sent') = {<<YAPP_ACK>>}
                  /\ transfers'[who].state = "wait_ack"
            /\ ( /\ IsHeaderPacket(p)
                 /\ Has(transfers, who)
                 /\ transfers[who].state = "wait_ack" ) =>
                  /\ Answers(sent') = {}
                  /\ transfers' = transfers
            /\ ( /\ IsHeaderPacket(p)
                 /\ Has(transfers, who)
                 /\ transfers[who].state = "receiving_header" ) =>
                  /\ Answers(sent') = {<<YAPP_ACK>>}
                  /\ transfers'[who].state = "receiving_data"
    ]_vars

(***************************************************************************)
(* C4: upload persistence.  When an upload receives the data block that    *)
(* brings the accumulated bytes to at least the declared size, the YAPP    *)
(* data handler saves exactly one file record, owned by the peer, named as *)
(* the header says, whose content is the first `size` payload bytes; the   *)
(* transfer is then gone from the manager.                                 *)
(***************************************************************************)
\* the last block of an upload is being handled
LastBlockHandled(h, conns, ts) ==
    /\ YappHandled(h, conns)
    /\ h.frame.info[1] = YAPP_STX
    /\ Len(h.frame.info) >= 2
    /\ Has(ts, SenderOf(h.frame))
    /\ ts[SenderOf(h.frame)].is_upload
    /\ ts[SenderOf(h.frame)].state = "receiving_data"
    /\ Len(ts[SenderOf(h.frame)].file_data) + Len(h.frame.info) - 1
          >= ts[SenderOf(h.frame)].header.file_size

C4_UploadSaved ==
    [][LastBlockHandled(handled', connections, transfers) =>
        LET who == SenderOf(handled'.frame)
            t == transfers[who]
            payload == t.file_data \o Tail(handled'.frame.info)
        IN  /\ Len(files') = Len(files) + 1
            /\ SubSeq(files', 1, Len(files)) = files
            /\ files'[Len(files')].owner_callsign = who
            /\ files'[Len(files')].filename = t.header.filename
            /\ files'[Len(files')].file_data = SubSeq(payload, 1, t.header.file_size)
            /\ files'[Len(files')].file_size = t.header.file_size
            /\ ~Has(transfers', who)
    ]_vars

\* what the code does do: the manager forgets the completed transfer before the
\* data handler looks for it, the last block is acknowledged and nothing is saved
LastBlockAckedNothingSaved ==
    [][LastBlockHandled(handled', connections, transfers) =>
        /\ Answers(sent') = {<<YAPP_ACK>>}
        /\ ~Has(transfers', SenderOf(handled'.frame))
        /\ files' = files
    ]_vars

\* some upload does receive its last block
LastBlockReached ==
    /\ YappHandled(handled, connections)
    /\ handled.frame.info[1] = YAPP_STX
    /\ ~Has(transfers, SenderOf(handled.frame))
    /\ Answers(sent) = {<<YAPP_ACK>>}

(***************************************************************************)
(* SpecTelnet: two telnet clients connect, answer the NEW-ENVIRON request  *)
(* or not, type lines and leave, each line's LLM call returning at any     *)
(* later time.  The accept loop and the two receive loops interleave       *)
(* handler by handler.                                                     *)
(***************************************************************************)
Sockets == {"s1", "s2"}

\* the address accept() returns for a socket, as f"{address[0]}:{address[1]}"
AddressOf(t) == IF t = "s1" THEN ADDR_1 ELSE ADDR_2

\* IAC SB NEW-ENVIRON IS VAR "USER" VALUE "K0ASM" IAC SE
EnvUserK0ASM ==
    <<IAC, SB, TELOPT_NEW_ENVIRON, 0, ENV_VAR>> \o ENV_USER \o <<ENV_VALUE>> \o K0ASM
        \o <<IAC, SE>>

\* what one recv() of a client's socket returns
TelnetData ==
    {EnvUserK0ASM, Lower(K0ASM) \o CRLF, L_HELLO \o CRLF, L_QUIT \o CRLF}

InitTelnet == FrameIdle /\ ProgInit(Sockets)

\* accept() returns a new connection; the accept loop is at accept() when it is
\* in no on_connect, and s1 is the name of the first connection accepted
Accept(t) ==
    /\ tconn[t].state = "new"
    /\ \A u \in Sockets : ~tconn[u].accepting
    /\ t = "s2" => tconn["s1"].state # "new"
    /\ Install(AcceptConnection(World, t, AddressOf(t)))
    /\ handled' = [kind |-> "accept", sock |-> t]
    /\ UNCHANGED frameVars

AcceptStep == \E t \in Sockets : Accept(t)

\* the accept loop calls on_connect for the connection it accepted
Notify(t, env) ==
    /\ tconn[t].accepting
    /\ Install(NotifyConnect(World, t, env))
    /\ handled' = [kind |-> "on_connect", sock |-> t]
    /\ UNCHANGED frameVars

NotifyStep == \E t \in Sockets, env \in Envs : Notify(t, env)

\* recv() returns data in the receive loop of t
Recv(t, data, env) ==
    /\ tconn[t].receiving
    /\ turn[t] = Null
    /\ Install(ReceiveData(World, t, data, env))
    /\ handled' = [kind |-> "recv", sock |-> t, data |-> data]
    /\ UNCHANGED frameVars

RecvStep == \E t \in Sockets, data \in TelnetData, env \in Envs : Recv(t, data, env)

\* recv() returns b'': the client closed the socket
PeerClose(t) ==
    /\ tconn[t].receiving
    /\ turn[t] = Null
    /\ Install(ReceiveLoopEnd(World, t))
    /\ handled' = [kind |-> "close", sock |-> t]
    /\ UNCHANGED frameVars

CloseStep == \E t \in Sockets : PeerClose(t)

\* claude_client.send_message returns in the receive loop of t
TelnetLlmReturn(t, result, env) ==
    /\ turn[t] # Null
    /\ Len(rows) < MaxRows
    /\ Install(AfterLine(OnDataReturn(World, t, result), t, env))
    /\ handled' = [kind |-> "llm", thr |-> t, result |-> result]
    /\ UNCHANGED frameVars

TelnetLlmStep ==
    \E t \in Sockets, result \in LlmResults, env \in Envs : TelnetLlmReturn(t, result, env)

NextTelnet == AcceptStep \/ NotifyStep \/ RecvStep \/ CloseStep \/ TelnetLlmStep

SpecTelnet == InitTelnet /\ [][NextTelnet]_vars

(***************************************************************************)
(* C5: rekey atomicity.  Once a telnet connection has been authenticated,  *)
(* by a typed callsign line or by a NEW-ENVIRON login name followed by     *)
(* authentication, the callsign key is present and the connection's        *)
(* ip:port key is absent in both the telnet server's connection table and  *)
(* the session store.                                                      *)
(***************************************************************************)
\* the connection of socket t is open and the session it is served under is
\* authenticated
Authenticated(t) ==
    /\ tconn[t].state = "connected"
    /\ Has(sessions, Upper(TelnetRemoteAddress(tconn[t])))
    /\ sessions[Upper(TelnetRemoteAddress(tconn[t]))].authenticated

C5_RekeyAtomicity ==
    \A t \in DOMAIN tconn :
        Authenticated(t) =>
            /\ Has(ttable, tconn[t].callsign) /\ ~Has(ttable, tconn[t].addr)
            /\ Has(sessions, tconn[t].callsign) /\ ~Has(sessions, tconn[t].addr)

\* a step of socket t's receive loop that handles data
Received(h, t, data) == h.kind = "recv" /\ h.sock = t /\ h.data = data

\* what the code does do on the typed path: a callsign line typed on a connection
\* that has no callsign yet moves both keys
TypedCallsignRekeysBoth ==
    [][\A t \in DOMAIN tconn :
          ( /\ Received(handled', t, Lower(K0ASM) \o CRLF)
            /\ tconn[t].state = "connected"
            /\ tconn[t].callsign = <<>>
            /\ ~(Has(sessions, tconn[t].addr) /\ sessions[tconn[t].addr].authenticated) ) =>
              /\ tconn'[t].callsign = K0ASM
              /\ Has(ttable', K0ASM) /\ ~Has(ttable', tconn[t].addr)
              /\ Has(sessions', K0ASM) /\ ~Has(sessions', tconn[t].addr)
              /\ sessions'[K0ASM].authenticated
    ]_vars

\* and on the NEW-ENVIRON path: the login name moves the key of the connection
\* table alone, and the session store is left as it was
EnvironRekeysTableOnly ==
    [][\A t \in DOMAIN tconn :
          ( /\ Received(handled', t, EnvUserK0ASM)
            /\ tconn[t].state = "connected"
            /\ tconn[t].callsign = <<>> ) =>
              /\ tconn'[t].callsign = K0ASM
              /\ Has(ttable', K0ASM) /\ ~Has(ttable', tconn[t].addr)
              /\ sessions' = sessions
    ]_vars

(***************************************************************************)
(* C6: telnet greeting via environment.  When a client answers the         *)
(* server's IAC DO NEW-ENVIRON with USER=<valid callsign>, the connection  *)
(* is authenticated as that callsign without the user typing it: the       *)
(* session of the callsign is marked authenticated, banner and prompt are  *)
(* sent, and the client's next line is dispatched as a command or query,   *)
(* not taken for a callsign.                                               *)
(***************************************************************************)
\* the texts written to socket t by the last step
Written(out, t) == {out[i].data : i \in {j \in 1..Len(out) : out[j].kind = "tcp" /\ out[j].sock = t}}

C6_EnvironGreeting ==
    [][\A t \in DOMAIN tconn :
          /\ ( /\ Received(handled', t, EnvUserK0ASM)
               /\ tconn[t].state = "connected"
               /\ ~tconn[t].accepting
               /\ tconn[t].callsign = <<>> ) =>
                 /\ Has(sessions', K0ASM) /\ sessions'[K0ASM].authenticated
                 /\ TXT_BANNER \in Written(sent', t)
                 /\ \E text \in Written(sent', t) : EndsWith(text, TXT_PROMPT)
          /\ ( /\ Received(handled, t, EnvUserK0ASM)
               /\ Received(handled', t, L_HELLO \o CRLF)
               /\ tconn[t].state = "connected"
               /\ ~tconn[t].accepting
               /\ tconn[t].callsign = K0ASM ) =>
                 TXT_INVALID_CALLSIGN \notin Written(sent', t)
    ]_vars

\* what the code does do: the login name renames the connection and nothing
\* else; no session is authenticated and nothing is sent; the next line of a
\* connection whose callsign has no authenticated session is taken for a callsign
EnvironOnlyRenames ==
    [][\A t \in DOMAIN tconn :
          /\ ( /\ Received(handled', t, EnvUserK0ASM)
               /\ tconn[t].state = "connected"
               /\ tconn[t].callsign = <<>> ) =>
                 /\ tconn'[t].callsign = K0ASM
                 /\ sessions' = sessions
                 /\ sent' = <<>>
          /\ ( /\ Received(handled', t, L_HELLO \o CRLF)
               /\ tconn[t].state = "connected"
               /\ tconn[t].callsign = K0ASM
               /\ ~(Has(sessions, K0ASM) /\ sessions[K0ASM].authenticated) ) =>
                 /\ Written(sent', t) = {TXT_INVALID_CALLSIGN}
                 /\ turn'[t] = Null
    ]_vars

(***************************************************************************)
(* C9: per-session serialization.  At any time at most one line per        *)
(* session is being processed, so at most one LLM turn is in flight per    *)
(* session, also when two connections are authenticated under the same     *)
(* callsign.                                                               *)
(***************************************************************************)
\* the threads whose handler is in claude_client.send_message
InFlight == {thr \in DOMAIN turn : turn[thr] # Null}

\* the key of the session a turn in flight reads and appends to
SessionKey(thr) == Upper(RemoteAddress(World, turn[thr].c))

C9_OneTurnPerSession ==
    \A a, b \in InFlight : a # b => SessionKey(a) # SessionKey(b)

\* what the code does do: one turn per connection, each receive loop handling
\* its own lines in order
OneTurnPerConnection ==
    \A thr \in InFlight :
        /\ turn[thr].c = TelnetRef(thr)
        /\ tconn[thr].receiving

(***************************************************************************)
(* SpecSession: the operations of SessionManager on the session of one     *)
(* callsign, in any order.  log is the history of the session: what was    *)
(* added to it since it was created or last cleared.                       *)
(***************************************************************************)
\* the most additions followed between two clears
MaxLog == 4

\* the callsign as its callers write it
SessionCallsigns == {W1ABC, Lower(W1ABC)}

SessionContents == {L_HELLO, LLM_REPLY}

InitSession == FrameIdle /\ ProgInit({})

SessionUnchanged ==
    UNCHANGED <<fpc, fr, wire, dec, running, connections, transfers, files, shares,
                file_seq, rows, turn, tconn,
                ttable, sent, fired>>

AddUserMessage(callsign, message) ==
    /\ Len(log) < MaxLog
    /\ sessions' = add_user_message(sessions, callsign, message)
    /\ log' = Append(log, [role |-> "user", content |-> message])
    /\ handled' = [kind |-> "add_user_message", callsign |-> callsign]
    /\ SessionUnchanged

AddAssistantMessage(callsign, message) ==
    /\ Len(log) < MaxLog
    /\ sessions' = add_assistant_message(sessions, callsign, message)
    /\ log' = Append(log, [role |-> "assistant", content |-> message])
    /\ handled' = [kind |-> "add_assistant_message", callsign |-> callsign]
    /\ SessionUnchanged

ClearSession(callsign) ==
    /\ sessions' = clear_session(sessions, callsign)
    /\ log' = <<>>
    /\ handled' = [kind |-> "clear_session", callsign |-> callsign]
    /\ SessionUnchanged

AddUserStep ==
    \E callsign \in SessionCallsigns, message \in SessionContents :
        AddUserMessage(callsign, message)

AddAssistantStep ==
    \E callsign \in SessionCallsigns, message \in SessionContents :
        AddAssistantMessage(callsign, message)

ClearStep == \E callsign \in SessionCallsigns : ClearSession(callsign)

NextSession == AddUserStep \/ AddAssistantStep \/ ClearStep

SpecSession == InitSession /\ [][NextSession]_vars

(***************************************************************************)
(* C7: session bound.  After any sequence of add_user_message,             *)
(* add_assistant_message and clear operations on a session, the number of  *)
(* stored messages never exceeds max_context_messages, and the stored      *)
(* sequence is the most recent messages in insertion order: an addition    *)
(* beyond the bound drops exactly the oldest.                              *)
(***************************************************************************)
\* the last n entries of a history (all of it when it has fewer)
MostRecent(h, n) == IF Len(h) <= n THEN h ELSE SubSeq(h, Len(h) - n + 1, Len(h))

C7_SessionBound ==
    /\ ~Has(sessions, W1ABC) => log = <<>>
    /\ Has(sessions, W1ABC) =>
          /\ Len(sessions[W1ABC].messages) <= MaxContextMessages
          /\ sessions[W1ABC].messages = MostRecent(log, MaxContextMessages)

\* an addition has dropped the oldest message of a full session
OldestDropped ==
    /\ Has(sessions, W1ABC)
    /\ Len(log) > MaxContextMessages
    /\ Len(sessions[W1ABC].messages) = MaxContextMessages
    /\ handled.kind \in {"add_user_message", "add_assistant_message"}

(***************************************************************************)
(* SpecRate: one AX.25 station connects and sends query lines; each LLM    *)
(* call returns a reply or an error, and time passes between the steps.    *)
(***************************************************************************)
\* the most rows the queries table is let to hold
MaxRateRows == 4

RateFrames ==
    { Via(create_sabm_frame(W2ASM, W1ABC, 10, 0)),
      IFrame(W2ASM, W1ABC, L_HELLO \o <<13>>, 10, 0) }

InitRate == FrameIdle /\ ProgInit({})

RateFrameStep == \E f \in RateFrames, env \in Envs : KissFrame(f, env)

\* claude_client.send_message returns
RateLlmReturn(result) ==
    /\ turn[KissThread] # Null
    /\ Len(rows) < MaxRateRows
    /\ Install(OnDataReturn(World, KissThread, result))
    /\ handled' = [kind |-> "llm", thr |-> KissThread, result |-> result]
    /\ UNCHANGED frameVars

RateLlmStep == \E result \in LlmResults : RateLlmReturn(result)

\* the rows after some time has passed: the oldest k rows are now a day old or
\* more, and the oldest j rows an hour old or more
Aged(qs, k, j) ==
    [i \in 1..Len(qs) |->
        [qs[i] EXCEPT !.age = IF i <= k /\ @ < DAY_WINDOW THEN DAY_WINDOW
                              ELSE IF i <= j /\ @ < HOUR_WINDOW THEN HOUR_WINDOW
                              ELSE @]]

\* time passes while the read loop waits for a frame or for the LLM
Elapse(k, j) ==
    /\ k <= j
    /\ rows' = Aged(rows, k, j)
    /\ rows' # rows
    /\ handled' = [kind |-> "clock"]
    /\ sent' = <<>>
    /\ fired' = <<>>
    /\ UNCHANGED <<fpc, fr, wire, dec, running, connections, transfers, files, shares,
                   file_seq, sessions, turn,
                   tconn, ttable, log>>

ElapseStep == \E k \in 0..Len(rows), j \in 0..Len(rows) : Elapse(k, j)

NextRate == RateFrameStep \/ RateLlmStep \/ ElapseStep

SpecRate == InitRate /\ [][NextRate]_vars

(***************************************************************************)
(* C8: rate-limit admission.  With limits H per hour and D per day, a line *)
(* of an authenticated callsign reaches the LLM only if the callsign has   *)
(* fewer than H error-free query rows in the last hour and fewer than D in *)
(* the last day; otherwise the sender gets the denial that names the limit *)
(* hit, followed by the prompt, no LLM call is made, no query row is       *)
(* written and the session history is unchanged.                           *)
(***************************************************************************)
\* the error-free rows of a callsign younger than a window
Successful(callsign, window) ==
    {i \in 1..Len(rows) : /\ rows[i].callsign = callsign
                          /\ rows[i].error = <<>>
                          /\ rows[i].age < window}

\* the last step handled a query line of W1ABC, authenticated and connected
QueryLineHandled(h, conns, ss) ==
    /\ h.kind = "frame"
    /\ h.decoded
    /\ h.frame.info = L_HELLO \o <<13>>
    /\ Has(conns, WithSsid(W1ABC, 0))
    /\ conns[WithSsid(W1ABC, 0)].state = "connected"
    /\ Has(ss, W1ABC)
    /\ ss[W1ABC].authenticated

RECURSIVE Joined(_)
Joined(texts) == IF texts = <<>> THEN <<>> ELSE Head(texts) \o Joined(Tail(texts))

\* the text the station received in the UI frames of the last step
ReceivedText(out) ==
    Joined([i \in 1..Len(out) |-> IF is_ui_frame(out[i].frame) THEN out[i].frame.info
                                  ELSE <<>>])

\* the denial of a query: the limit is named, the prompt follows, and nothing
\* else happens
Denied(limit_text) ==
    /\ Contains(ReceivedText(sent'), limit_text)
    /\ EndsWith(ReceivedText(sent'), TXT_PROMPT)
    /\ turn'[KissThread] = Null
    /\ rows' = rows
    /\ sessions' = sessions

C8_RateLimitAdmission ==
    [][QueryLineHandled(handled', connections, sessions) =>
        LET hour == Cardinality(Successful(W1ABC, HOUR_WINDOW))
            day == Cardinality(Successful(W1ABC, DAY_WINDOW))
        IN  /\ turn'[KissThread] # Null => hour < RateLimitPerHour /\ day < RateLimitPerDay
            /\ hour >= RateLimitPerHour =>
                  Denied(TXT_HOURLY_1 \o Str(RateLimitPerHour) \o TXT_HOURLY_2)
            /\ (hour < RateLimitPerHour /\ day >= RateLimitPerDay) =>
                  Denied(TXT_DAILY_1 \o Str(RateLimitPerDay) \o TXT_DAILY_2)
    ]_vars

\* a line has been denied for the hourly limit
HourlyDenied ==
    /\ QueryLineHandled(handled, connections, sessions)
    /\ Cardinality(Successful(W1ABC, HOUR_WINDOW)) >= RateLimitPerHour
    /\ Contains(ReceivedText(sent), TXT_HOURLY_1 \o Str(RateLimitPerHour) \o TXT_HOURLY_2)
    /\ turn[KissThread] = Null

\* a line has been denied for the daily limit
DailyDenied ==
    /\ QueryLineHandled(handled, connections, sessions)
    /\ Cardinality(Successful(W1ABC, HOUR_WINDOW)) < RateLimitPerHour
    /\ Cardinality(Successful(W1ABC, DAY_WINDOW)) >= RateLimitPerDay
    /\ Contains(ReceivedText(sent), TXT_DAILY_1 \o Str(RateLimitPerDay) \o TXT_DAILY_2)
    /\ turn[KissThread] = Null

\* a line has been admitted with rows of the callsign in both windows
AdmittedBelowLimits ==
    /\ QueryLineHandled(handled, connections, sessions)
    /\ turn[KissThread] # Null
    /\ Cardinality(Successful(W1ABC, HOUR_WINDOW)) = RateLimitPerHour - 1

(***************************************************************************)
(* SpecYappMode: a connected station starts an upload and, while the       *)
(* transfer is active, sends text and YAPP packets in I frames and in UI   *)
(* frames.                                                                 *)
(***************************************************************************)
YappModeFrames ==
    { Via(create_sabm_frame(W2ASM, W1ABC, 10, 0)),
      IFrame(W2ASM, W1ABC, <<YAPP_ENQ>>, 10, 0),
      IFrame(W2ASM, W1ABC, <<YAPP_ACK>>, 10, 0),
      IFrame(W2ASM, W1ABC, <<YAPP_CAN>>, 10, 0),
      IFrame(W2ASM, W1ABC, L_HELLO \o <<13>>, 10, 0),
      create_ui_frame(W2ASM, W1ABC, L_HELLO \o <<13>>, 10, 0),
      create_ui_frame(W2ASM, W1ABC, <<YAPP_STX>> \o DATA_HEL, 10, 0) }

InitYappMode == FrameIdle /\ ProgInit({})

YappModeStep == \E f \in YappModeFrames, env \in Envs : KissFrame(f, env)

NextYappMode == YappModeStep \/ LlmStep

SpecYappMode == InitYappMode /\ [][NextYappMode]_vars

(***************************************************************************)
(* C11: YAPP mode routing.  From the moment a connection is in YAPP mode   *)
(* with a transfer active for its peer until the transfer ends, every      *)
(* info payload of that peer, whatever its first byte and whatever the     *)
(* type of its frame, goes to the YAPP transfer and never to on_data.      *)
(***************************************************************************)
\* the peer W1ABC is connected, in YAPP mode, and has a transfer that has not ended
InYappMode ==
    /\ Has(connections, WithSsid(W1ABC, 0))
    /\ connections[WithSsid(W1ABC, 0)].state = "connected"
    /\ connections[WithSsid(W1ABC, 0)].in_yapp_mode
    /\ Has(transfers, W1ABC)
    /\ transfers[W1ABC].state \notin {"complete", "error"}

\* the last step handled a frame of the peer that carries a payload
PayloadHandled(h) ==
    /\ h.kind = "frame"
    /\ h.decoded
    /\ ~is_sabm_frame(h.frame) /\ ~is_disc_frame(h.frame)
    /\ h.frame.info # <<>>

\* the callbacks a step fired, by name
FiredNames(f) == {f[i].name : i \in 1..Len(f)}

C11_YappModeRouting ==
    [][(InYappMode /\ PayloadHandled(handled')) =>
          /\ "on_data" \notin FiredNames(fired')
          /\ "on_yapp_data" \in FiredNames(fired')
    ]_vars

\* what the code does do: the first byte and the frame type route a payload,
\* whether the connection is in YAPP mode or not
RoutedByFirstByte ==
    [][(InYappMode /\ PayloadHandled(handled')) =>
          IF is_ui_frame(handled'.frame) \/ ~is_yapp_packet(handled'.frame.info)
          THEN FiredNames(fired') = {"on_data"}
          ELSE FiredNames(fired') = {"on_yapp_data"}
    ]_vars

(***************************************************************************)
(* SpecDownload: the YAPPManager sends one file to the peer W1ABC, which   *)
(* answers with ACK, NAK or CAN packets in any order.  log records the     *)
(* download started, and every packet received and returned since.         *)
(***************************************************************************)
\* the most packets the peer sends
MaxPeerPackets == 6

\* the sizes of the files sent: empty, one block or less, and more than one block
DownloadSizes == {0, 1, BLOCK_SIZE, BLOCK_SIZE + 1}

\* a file of n bytes, none of them NUL
FileBytes(n) == [i \in 1..n |-> 1 + (i % 250)]

PeerPackets == {<<YAPP_ACK>>, <<YAPP_NAK>>, <<YAPP_CAN>>}

InitDownload == FrameIdle /\ ProgInit({})

DownloadUnchanged ==
    UNCHANGED <<fpc, fr, wire, dec, running, connections, files, shares, file_seq,
                sessions, rows, turn, tconn,
                ttable, sent, fired>>

\* YAPPManager.start_download for the peer
StartDownload(n) ==
    /\ log = <<>>
    /\ LET r == ManagerStartDownload(transfers, W1ABC, FN_T_TXT, FileBytes(n), 0)
       IN  /\ transfers' = r.transfers
           /\ log' = <<[kind |-> "start", size |-> n], [kind |-> "out", data |-> r.response]>>
    /\ handled' = [kind |-> "start_download", size |-> n]
    /\ DownloadUnchanged

StartDownloadStep == \E n \in DownloadSizes : StartDownload(n)

\* the log after a packet of the peer and the manager's answer to it
Logged(h, data, response) ==
    IF response = <<>> THEN Append(h, [kind |-> "in", data |-> data])
    ELSE h \o <<[kind |-> "in", data |-> data], [kind |-> "out", data |-> response]>>

\* YAPPManager.handle_packet on a packet of the peer
PeerPacket(data) ==
    /\ log # <<>>
    /\ Cardinality({i \in 1..Len(log) : log[i].kind = "in"}) < MaxPeerPackets
    /\ LET r == ManagerHandlePacket(transfers, W1ABC, data)
       IN  /\ transfers' = r.transfers
           /\ log' = Logged(log, data, r.response)
    /\ handled' = [kind |-> "yapp", data |-> data]
    /\ DownloadUnchanged

PeerPacketStep == \E data \in PeerPackets : PeerPacket(data)

NextDownload == StartDownloadStep \/ PeerPacketStep

SpecDownload == InitDownload /\ [][NextDownload]_vars

(***************************************************************************)
(* C12: YAPP download sequence.  For a download of a file of n >= 0 bytes  *)
(* whose peer answers every packet with ACK, the packets sent are, in      *)
(* order: one ENQ, one SOH with the 128-byte header, ceil(n/128) STX       *)
(* packets of 128 payload bytes each in block order (the last padded with  *)
(* NULs), then one ETX, and the transfer ends COMPLETE; the payloads cut   *)
(* to n bytes are the file.                                                *)
(***************************************************************************)
\* the packets of one direction in a log
PacketsOf(h, kind) ==
    LET picked == SelectSeq(h, LAMBDA e : e.kind = kind)
    IN  [i \in 1..Len(picked) |-> picked[i].data]

\* the peer has answered with ACK only, one ACK for a packet sent
AllAcked(h) ==
    /\ h # <<>>
    /\ \A i \in 1..Len(h) : h[i].kind = "in" => h[i].data = <<YAPP_ACK>>
    /\ Len(PacketsOf(h, "in")) <= Len(PacketsOf(h, "out"))

\* ceil(n / 128)
BlocksOf(n) == (n + 127) \div 128

\* block k of the file of n bytes, padded to 128 bytes
BlockOf(n, k) ==
    [j \in 1..128 |-> IF (k - 1) * 128 + j <= n THEN FileBytes(n)[(k - 1) * 128 + j] ELSE 0]

\* the i-th packet sent is the one the sequence has at that place
ExpectedAt(outs, i, n) ==
    IF i = 1 THEN outs[i] = <<YAPP_ENQ>>
    ELSE IF i = 2
    THEN /\ Len(outs[i]) = 129
         /\ outs[i][1] = YAPP_SOH
         /\ HeaderDecode(Tail(outs[i])) # Null
         /\ HeaderDecode(Tail(outs[i])).filename = FN_T_TXT
         /\ HeaderDecode(Tail(outs[i])).file_size = n
    ELSE IF i <= 2 + BlocksOf(n) THEN outs[i] = <<YAPP_STX>> \o BlockOf(n, i - 2)
    ELSE IF i = 3 + BlocksOf(n) THEN outs[i] = <<YAPP_ETX>>
    ELSE FALSE

\* the packets sent are the beginning of the sequence, and the transfer has
\* ended (and left the manager) exactly when all of the sequence is sent
SequenceFollowed(h) ==
    LET outs == PacketsOf(h, "out")
        n == h[1].size
    IN  /\ \A i \in 1..Len(outs) : ExpectedAt(outs, i, n)
        /\ Len(outs) = 3 + BlocksOf(n) <=> ~Has(transfers, W1ABC)

C12_DownloadSequence == AllAcked(log) => SequenceFollowed(log)

\* what the code does do: the sequence is followed for every file that is not
\* empty
NonEmptyDownloadSequence == (AllAcked(log) /\ log[1].size > 0) => SequenceFollowed(log)

\* and an empty file's ETX is sent without ending the transfer, and sent again
\* for the peer's ACK of it
EmptyDownloadSendsEtxTwice ==
    [][( /\ AllAcked(log) /\ log[1].size = 0
         /\ Len(PacketsOf(log, "out")) = 3
         /\ Len(PacketsOf(log, "in")) = 2
         /\ handled'.kind = "yapp" /\ handled'.data = <<YAPP_ACK>> ) =>
           /\ PacketsOf(log, "out")[3] = <<YAPP_ETX>>
           /\ Has(transfers, W1ABC) /\ transfers[W1ABC].state = "sending_data"
           /\ PacketsOf(log', "out") = Append(PacketsOf(log, "out"), <<YAPP_ETX>>)
           /\ ~Has(transfers', W1ABC)
    ]_vars

(***************************************************************************)
(* C13: YAPP NAK handling during a download.  Each NAK makes the current   *)
(* unit (the header or the current block) be sent again without advancing  *)
(* the block index, and the transfer sends CAN and enters ERROR exactly    *)
(* when more than 3 consecutive NAKs have been received; an ACK in between *)
(* restarts the count.                                                     *)
(***************************************************************************)
\* the number of NAKs at the end of the packets received
TrailingNaks(ins) ==
    LET others == {i \in 1..Len(ins) : ins[i] # <<YAPP_NAK>>}
        last == IF others = {} THEN 0 ELSE CHOOSE i \in others : \A j \in others : j <= i
    IN  Len(ins) - last

\* a download is sending its header or its blocks
Sending(ts) ==
    /\ Has(ts, W1ABC)
    /\ ts[W1ABC].state \in {"sending_header", "sending_data"}

\* the step handles a NAK of the peer
NakHandled == handled'.kind = "yapp" /\ handled'.data = <<YAPP_NAK>>

\* the step has sent CAN and ended the transfer in ERROR (which removes it)
Cancelled ==
    /\ log' = Logged(log, <<YAPP_NAK>>, <<YAPP_CAN>>)
    /\ ~Has(transfers', W1ABC)

\* the step has sent the last packet again and kept the block index
Retransmitted ==
    /\ log' = Logged(log, <<YAPP_NAK>>, PacketsOf(log, "out")[Len(PacketsOf(log, "out"))])
    /\ Has(transfers', W1ABC)
    /\ transfers'[W1ABC].state = transfers[W1ABC].state
    /\ transfers'[W1ABC].current_block = transfers[W1ABC].current_block

C13_ConsecutiveNaks ==
    [][(Sending(transfers) /\ NakHandled) =>
        IF TrailingNaks(PacketsOf(log', "in")) > 3 THEN Cancelled ELSE Retransmitted
    ]_vars

\* what the code does do: retry_count counts every NAK of the transfer, no ACK
\* resets it, and the NAK that makes it reach MAX_RETRIES cancels the transfer
NaksCountedOverTransfer ==
    [][(Sending(transfers) /\ NakHandled) =>
        /\ transfers[W1ABC].retry_count =
              Cardinality({i \in 1..Len(log) : log[i] = [kind |-> "in", data |-> <<YAPP_NAK>>]})
        /\ IF transfers[W1ABC].retry_count + 1 >= MAX_RETRIES THEN Cancelled ELSE Retransmitted
    ]_vars

\* three NAKs, each after an ACK, have cancelled a download
IsolatedNaksCancelled ==
    /\ log # <<>>
    /\ ~Has(transfers, W1ABC)
    /\ log[Len(log)] = [kind |-> "out", data |-> <<YAPP_CAN>>]
    /\ LET ins == PacketsOf(log, "in")
       IN  \A i \in 2..Len(ins) : ins[i] = <<YAPP_NAK>> => ins[i - 1] = <<YAPP_ACK>>

(***************************************************************************)
(* C15: a CAN packet received from the peer while a transfer is in any     *)
(* state that is not terminal (waiting for ACK, receiving header,          *)
(* receiving data, sending header, sending data) moves the transfer to     *)
(* ERROR, nothing more is sent for it, and it is removed from the manager. *)
(***************************************************************************)
\* the step handles a CAN of the peer
CanHandled == handled'.kind = "yapp" /\ handled'.data = <<YAPP_CAN>>

C15_PeerCancel ==
    [][(Has(transfers, W1ABC) /\ CanHandled) =>
        /\ ~Has(transfers', W1ABC)
        /\ log' = Append(log, [kind |-> "in", data |-> <<YAPP_CAN>>])
    ]_vars

\* what the code does do: a CAN ends a transfer that waits for the ACK of its
\* ENQ, and is ignored in every state after that one
CancelOnlyWhileWaiting ==
    [][(Has(transfers, W1ABC) /\ CanHandled) =>
        /\ log' = Append(log, [kind |-> "in", data |-> <<YAPP_CAN>>])
        /\ IF transfers[W1ABC].state = "wait_ack" THEN ~Has(transfers', W1ABC)
           ELSE transfers' = transfers
    ]_vars

(***************************************************************************)
(* SpecSweep: the AX.25 link of SpecYappMode with time passing and the     *)
(* cleanup thread's pass over the connections and the sessions.  The idle  *)
(* field of a connection, of a transfer and of a session is the time since *)
(* its last_activity, in seconds.                                          *)
(***************************************************************************)
\* YAPPTransfer.TIMEOUT
YAPP_TIMEOUT == 30

\* the timeout of _cleanup_loop where config.session_timeout is 0
STALE_TIMEOUT == 300

\* timeout=self.config.session_timeout if self.config.session_timeout > 0 else 300
CleanupTimeout == IF SESSION_TIMEOUT > 0 THEN SESSION_TIMEOUT ELSE STALE_TIMEOUT

\* YAPPTransfer.is_timeout
is_timeout(t) == t.idle > YAPP_TIMEOUT

\* YAPPManager.cleanup_timeouts: no transfer has an on_error callback
cleanup_timeouts(ts) == [k \in {x \in DOMAIN ts : ~is_timeout(ts[x])} |-> ts[k]]

\* the loop over the stale keys of cleanup_stale_connections
RECURSIVE RemoveStale(_, _)
RemoveStale(w, stale) ==
    IF stale = {} THEN w
    ELSE LET key == CHOOSE k \in stale : TRUE
             c == AxRef(key, w.connections[key])
             w1 == OnDisconnect(Fire(w, "on_disconnect", c), c)
         IN  RemoveStale([w1 EXCEPT !.connections = Del(@, key)], stale \ {key})

\* AX25ConnectionHandler.cleanup_stale_connections
cleanup_stale_connections(w, timeout) ==
    LET stale == {key \in DOMAIN w.connections : w.connections[key].idle > timeout}
        w1 == RemoveStale(w, stale)
    IN  [w1 EXCEPT !.transfers = cleanup_timeouts(@)]

\* TelnetServer.cleanup_stale_connections: _handle_disconnect for the connection
\* of every key that was stale when the loop began
RECURSIVE TelnetRemoveStale(_, _)
TelnetRemoveStale(w, stale) ==
    IF stale = {} THEN w
    ELSE LET t == CHOOSE u \in stale : TRUE
         IN  TelnetRemoveStale(TelnetHandleDisconnect(w, t), stale \ {t})

telnet_cleanup_stale_connections(w, timeout) ==
    TelnetRemoveStale(w, {w.ttable[key] : key \in {k \in DOMAIN w.ttable :
                                                     w.tconn[w.ttable[k]].idle > timeout}})

\* SessionManager.cleanup_idle_sessions
cleanup_idle_sessions(ss, timeout) ==
    [k \in {x \in DOMAIN ss : ~(ss[x].idle > timeout)} |-> ss[k]]

\* one pass of _cleanup_loop over the connections and the sessions
CleanupPass(w) ==
    LET w1 == telnet_cleanup_stale_connections(
                  cleanup_stale_connections(w, CleanupTimeout), CleanupTimeout)
    IN  [w1 EXCEPT !.sessions = cleanup_idle_sessions(@, CleanupTimeout)]

\* the pass of _cleanup_loop
Sweep ==
    /\ Install(CleanupPass(World))
    /\ handled' = [kind |-> "sweep"]
    /\ UNCHANGED frameVars

\* the steps of the clock: up to the transfer timeout, and the rest of the way to
\* the first second after the connection timeout
TickSeconds == {YAPP_TIMEOUT, CleanupTimeout + 1 - YAPP_TIMEOUT}

\* an idle time d seconds later; nothing tells idle times above both timeouts apart
Later(idle, d) ==
    IF idle + d > CleanupTimeout + 1 THEN CleanupTimeout + 1 ELSE idle + d

\* the idle times the clock has let grow
IdleTimes ==
    {connections[k].idle : k \in DOMAIN connections}
        \cup {transfers[k].idle : k \in DOMAIN transfers}
        \cup {sessions[k].idle : k \in DOMAIN sessions}
        \cup {tconn[t].idle : t \in DOMAIN tconn}

\* d seconds pass; the short step is taken only while nothing has aged, which
\* keeps the idle times to 0, the transfer timeout, and the values around the
\* connection timeout
Tick(d) ==
    /\ d <= YAPP_TIMEOUT => IdleTimes \subseteq {0}
    /\ connections' = [k \in DOMAIN connections |->
                          [connections[k] EXCEPT !.idle = Later(@, d)]]
    /\ transfers' = [k \in DOMAIN transfers |->
                        [transfers[k] EXCEPT !.idle = Later(@, d)]]
    /\ sessions' = [k \in DOMAIN sessions |->
                       [sessions[k] EXCEPT !.idle = Later(@, d)]]
    /\ tconn' = [t \in DOMAIN tconn |->
                    IF tconn[t].state = "connected"
                    THEN [tconn[t] EXCEPT !.idle = Later(@, d)] ELSE tconn[t]]
    /\ <<connections', transfers', sessions', tconn'>>
           # <<connections, transfers, sessions, tconn>>
    /\ sent' = <<>>
    /\ fired' = <<>>
    /\ handled' = [kind |-> "clock"]
    /\ UNCHANGED <<fpc, fr, wire, dec, running, files, shares, file_seq,
                   rows, turn, ttable, log>>

TickStep == \E d \in TickSeconds : Tick(d)

InitSweep == FrameIdle /\ ProgInit({})

NextSweep == YappModeStep \/ LlmStep \/ TickStep \/ Sweep

SpecSweep == InitSweep /\ [][NextSweep]_vars

(***************************************************************************)
(* C14: YAPP inactivity.  When a transfer has received no packet for more  *)
(* than 30 seconds, the next background sweep sends CAN to the peer, puts  *)
(* the transfer into ERROR and removes it from the manager, and afterwards *)
(* the peer's connection is no longer in YAPP mode.                        *)
(***************************************************************************)
\* the sweep runs while the transfer of a connected peer has timed out
SweepsTimedOut(key) ==
    /\ handled'.kind = "sweep"
    /\ Has(connections, key) /\ Has(connections', key)
    /\ Has(transfers, AxRemoteAddress(connections[key]))
    /\ transfers[AxRemoteAddress(connections[key])].idle > 30

\* a UI frame with the one byte CAN is sent to the peer of the connection
CanSentTo(conn) ==
    \E i \in 1..Len(sent') :
        /\ sent'[i].kind = "frame"
        /\ sent'[i].frame.info = <<YAPP_CAN>>
        /\ Strip(sent'[i].frame.destination.callsign) = conn.remote_callsign

C14_InactivitySweep ==
    [][\A key \in DOMAIN connections : SweepsTimedOut(key) =>
        /\ CanSentTo(connections[key])
        /\ ~Has(transfers', AxRemoteAddress(connections[key]))
        /\ ~connections'[key].in_yapp_mode
    ]_vars

\* what the code does do: the sweep deletes the transfer from the manager and
\* does nothing else; nothing is sent and the connection stays in YAPP mode
SweepOnlyForgets ==
    [][\A key \in DOMAIN connections : SweepsTimedOut(key) =>
        /\ sent' = <<>>
        /\ ~Has(transfers', AxRemoteAddress(connections[key]))
        /\ connections'[key] = connections[key]
        /\ connections[key].in_yapp_mode
    ]_vars

\* a transfer idle for the timeout and no longer is kept by the sweep
SweepKeepsActive ==
    [][handled'.kind = "sweep" =>
        \A k \in DOMAIN transfers : transfers[k].idle <= 30 => Has(transfers', k)
    ]_vars

(***************************************************************************)
(* The KISS framing of KISSClient: _build_kiss_frame and _read_kiss_frame. *)
(* SpecKiss builds the KISS frame of a payload and a port, and reads it    *)
(* back from the byte stream.                                              *)
(***************************************************************************)
FEND == 192
FESC == 219
TFEND == 220
TFESC == 221

\* KISSCommand.DATA_FRAME
DATA_FRAME == 0

\* the escaping loop of _build_kiss_frame
KissEscape(byte) ==
    IF byte = FEND THEN <<FESC, TFEND>>
    ELSE IF byte = FESC THEN <<FESC, TFESC>>
    ELSE <<byte>>

RECURSIVE KissEscaped(_)
KissEscaped(data) ==
    IF data = <<>> THEN <<>> ELSE KissEscape(Head(data)) \o KissEscaped(Tail(data))

\* KISSClient._build_kiss_frame; (port << 4) | DATA_FRAME is a byte for the ports
\* 0..15
build_kiss_frame(data, port) ==
    LET cmd == port * 16 + DATA_FRAME
    IN  <<FEND, cmd>> \o KissEscaped(data) \o <<FEND>>

\* what _read_kiss_frame returns: the bytes of the frame, or None (ok is FALSE)
\* at the end of the stream and for a frame without data; rest is what is left
\* of the stream
KissRead(data, rest) == [ok |-> data # <<>>, data |-> data, rest |-> rest]

\* the third loop of _read_kiss_frame, from byte i of the stream
RECURSIVE ReadFrameData(_, _, _, _)
ReadFrameData(s, i, frame_data, escaped) ==
    IF i > Len(s) THEN KissRead(<<>>, <<>>)
    ELSE IF s[i] = FEND THEN KissRead(frame_data, Slice(s, i + 1, Len(s)))
    ELSE IF s[i] = FESC THEN ReadFrameData(s, i + 1, frame_data, TRUE)
    ELSE IF escaped
    THEN ReadFrameData(s, i + 1,
                       Append(frame_data, IF s[i] = TFEND THEN FEND
                                          ELSE IF s[i] = TFESC THEN FESC
                                          ELSE s[i]),
                       FALSE)
    ELSE ReadFrameData(s, i + 1, Append(frame_data, s[i]), FALSE)

\* KISSClient._read_kiss_frame on the bytes the socket delivers: the bytes up to
\* the first FEND are dropped, the byte after it is read as the command byte and
\* not looked at
read_kiss_frame(s) ==
    LET fends == {i \in 1..Len(s) : s[i] = FEND}
        start == IF fends = {} THEN 0 ELSE CHOOSE i \in fends : \A j \in fends : i <= j
    IN  IF start = 0 \/ start + 1 > Len(s) THEN KissRead(<<>>, <<>>)
        ELSE ReadFrameData(s, start + 2, <<>>, FALSE)

\* the longest payload
MaxPayload == 2

\* the bytes of the payloads: the four bytes of the framing and two others
KissBytes == {0, 1, FEND, FESC, TFEND, TFESC}

KissPorts == 0..15

KissPayloads == SeqsUpTo(KissBytes, MaxPayload) \ {<<>>}

InitKiss ==
    /\ fpc = "payload"
    /\ fr \in [data : KissPayloads, port : KissPorts]
    /\ wire = <<>>
    /\ dec = None
    /\ ProgIdle

\* send_frame: the KISS frame is written to the stream
KissBuild ==
    /\ fpc = "payload"
    /\ wire' = build_kiss_frame(fr.data, fr.port)
    /\ fpc' = "sent"
    /\ UNCHANGED <<fr, dec>>
    /\ UNCHANGED progVars

\* receive_frame: the frame is read from the stream
KissReadFrame ==
    /\ fpc = "sent"
    /\ dec' = read_kiss_frame(wire)
    /\ wire' = read_kiss_frame(wire).rest
    /\ fpc' = "read"
    /\ UNCHANGED fr
    /\ UNCHANGED progVars

NextKiss == KissBuild \/ KissReadFrame

SpecKiss == InitKiss /\ [][NextKiss]_vars

(***************************************************************************)
(* C16: KISS round trip.  For every port in 0..15 and every payload that   *)
(* is not empty, over all byte values (FEND and FESC included), reading    *)
(* the frame the encoder produced from the byte stream yields the same     *)
(* port and exactly the same payload bytes.                                *)
(***************************************************************************)
\* what is read gives the payload, and gives the port: the frame of no other
\* port reads the same
C16_KissRoundTrip ==
    fpc = "read" =>
        /\ dec.ok
        /\ dec.data = fr.data
        /\ \A port \in KissPorts \ {fr.port} :
              read_kiss_frame(build_kiss_frame(fr.data, port)) # dec

\* what the code does do: the payload is read back, the whole frame is taken
\* from the stream, and the command byte has no part in what is returned
KissPayloadRoundTrip ==
    fpc = "read" =>
        /\ dec = [ok |-> TRUE, data |-> fr.data, rest |-> <<>>]
        /\ wire = <<>>
        /\ \A port \in KissPorts :
              read_kiss_frame(build_kiss_frame(fr.data, port)) = dec

(***************************************************************************)
(* SpecFiles: owners save, share, publish and delete files and readers     *)
(* download them, in any order, while the stored bytes may change on disk. *)
(***************************************************************************)
\* the most files saved, share rows written, and downloads of one file counted
MaxFiles == 1
MaxShares == 1
MaxDownloads == 1

\* the callsigns as the callers write them: the owners of files, the callsigns
\* files are shared with and that download, and the callsigns access is checked for
FileOwners == {W1ABC, Lower(K0ASM)}
FileReaders == {Lower(W1ABC), K0ASM}
FileCallsigns == {W1ABC, Lower(W1ABC), K0ASM, Lower(K0ASM), W2ASM}

\* the ids the callers ask for: those given out, and one never given out
FileIds == 1..(MaxFiles + 1)

InitFiles == FrameIdle /\ ProgInit({})

SaveFile(owner_callsign, access_level) ==
    /\ file_seq < MaxFiles
    /\ Install(upload_file(World, FN_T_TXT, DATA_HEL, owner_callsign, access_level))
    /\ handled' = [kind |-> "save_file", callsign |-> owner_callsign]
    /\ UNCHANGED frameVars

SaveFileStep ==
    \E cs \in FileOwners, access_level \in {"private", "public"} :
        SaveFile(cs, access_level)

ShareFile(file_id, owner_callsign, shared_with_callsign) ==
    /\ Len(shares) < MaxShares
    /\ Install(share_file(World, file_id, owner_callsign, shared_with_callsign))
    /\ handled' = [kind |-> "share_file", file_id |-> file_id, callsign |-> owner_callsign]
    /\ UNCHANGED frameVars

ShareFileStep ==
    \E file_id \in FileIds, owner \in FileOwners, cs \in FileReaders :
        ShareFile(file_id, owner, cs)

SetFilePublic(file_id, owner_callsign) ==
    /\ Install(set_file_public(World, file_id, owner_callsign))
    /\ handled' = [kind |-> "set_file_public", file_id |-> file_id,
                   callsign |-> owner_callsign]
    /\ UNCHANGED frameVars

SetFilePublicStep ==
    \E file_id \in FileIds, cs \in FileOwners : SetFilePublic(file_id, cs)

DeleteFile(file_id, callsign, cascade) ==
    /\ Install(delete_file(World, file_id, callsign, cascade))
    /\ handled' = [kind |-> "delete_file", file_id |-> file_id, callsign |-> callsign]
    /\ UNCHANGED frameVars

DeleteFileStep ==
    \E file_id \in FileIds, cs \in FileOwners, cascade \in BOOLEAN :
        DeleteFile(file_id, cs, cascade)

DownloadFile(file_id, callsign) ==
    /\ \A i \in 1..Len(files) : files[i].download_count < MaxDownloads
    /\ LET r == download_file(World, file_id, callsign)
       IN  /\ Install(r.w)
           /\ handled' = [kind |-> "download_file", file_id |-> file_id,
                          callsign |-> callsign, file_dict |-> r.file_dict,
                          error |-> r.error]
    /\ UNCHANGED frameVars

DownloadFileStep ==
    \E file_id \in FileIds, cs \in FileReaders : DownloadFile(file_id, cs)

\* the bytes of a stored file change on the disk, under the program
Corrupt(file_id) ==
    /\ get_file(World, file_id) # Null
    /\ get_file(World, file_id).file_data = DATA_HEL
    /\ LET Damaged(row) == [row EXCEPT !.file_data = DATA_LO]
       IN  Install(UpdateFiles(World, file_id, Null, Damaged))
    /\ handled' = [kind |-> "corrupt", file_id |-> file_id]
    /\ UNCHANGED frameVars

CorruptStep == \E file_id \in FileIds : Corrupt(file_id)

NextFiles ==
    \/ SaveFileStep
    \/ ShareFileStep
    \/ SetFilePublicStep
    \/ DeleteFileStep
    \/ DownloadFileStep
    \/ CorruptStep

SpecFiles == InitFiles /\ [][NextFiles]_vars

(***************************************************************************)
(* C17: file access.  After any sequence of save_file, share_file,         *)
(* set-public and delete_file operations, check_file_access(id, cs) is     *)
(* true if and only if the file exists and cs is its owner, or its access  *)
(* level is public, or its access level is shared and a share row (id, cs) *)
(* exists; callsigns are compared without regard to case.                  *)
(***************************************************************************)
\* two callsigns that differ in case at most
SameCallsign(a, b) == Upper(a) = Upper(b)

\* the file of the id exists and the callsign may read it
MayRead(file_id, cs) ==
    \E i \in 1..Len(files) :
        /\ files[i].id = file_id
        /\ \/ SameCallsign(files[i].owner_callsign, cs)
           \/ files[i].access_level = "public"
           \/ /\ files[i].access_level = "shared"
              /\ \E j \in 1..Len(shares) :
                    /\ shares[j].file_id = file_id
                    /\ SameCallsign(shares[j].shared_with_callsign, cs)

C17_FileAccess ==
    \A file_id \in FileIds, cs \in FileCallsigns :
        check_file_access(World, file_id, cs) <=> MayRead(file_id, cs)

\* a shared file that the callsign it is shared with may read, written in lower
\* case, and that a third callsign may not
SharedFileRead ==
    \E i \in 1..Len(files) :
        /\ files[i].access_level = "shared"
        /\ files[i].owner_callsign = W1ABC
        /\ check_file_access(World, files[i].id, Lower(K0ASM))
        /\ ~check_file_access(World, files[i].id, W2ASM)

(***************************************************************************)
(* C18: download accounting.  download_file increments a file's download   *)
(* count by exactly one if and only if the requester passes the access     *)
(* check and the MD5 of the stored bytes equals the checksum stored when   *)
(* the file was saved; on access denial or checksum mismatch it returns an *)
(* error ('Access denied', or the integrity failure) and leaves the        *)
(* download count and the file record unchanged.  The verification comes   *)
(* before the increment.                                                   *)
(***************************************************************************)
\* the stored bytes of the file have the checksum stored with them
ChecksumHolds(file_id) ==
    \E i \in 1..Len(files) :
        /\ files[i].id = file_id
        /\ calculate_checksum(files[i].file_data) = files[i].checksum

\* the files table with the download count of one file one higher
CountedOnce(fs, file_id) ==
    [i \in 1..Len(fs) |->
        IF fs[i].id = file_id THEN [fs[i] EXCEPT !.download_count = @ + 1] ELSE fs[i]]

DownloadCounted ==
    /\ handled.kind = "download_file"
    /\ handled.error = <<>>
    /\ get_file(World, handled.file_id).download_count = 1

\* a download has been denied
DownloadDenied ==
    /\ handled.kind = "download_file"
    /\ handled.error = TXT_ACCESS_DENIED
    /\ get_file(World, handled.file_id) # Null

(***************************************************************************)
(* SpecStop: PacketClaude.stop in a program that serves telnet clients and *)
(* an AX.25 station.  stop is called from the signal handler, which runs   *)
(* on the thread of _run wherever that thread is (also inside an LLM       *)
(* call), and from the finally block of start.                             *)
(***************************************************************************)
\* the loop of stop over connection_handler.get_all_connections()
RECURSIVE DisconnectAll(_, _)
DisconnectAll(w, keys) ==
    IF keys = {} THEN w
    ELSE LET key == CHOOSE k \in keys : TRUE
         IN  DisconnectAll(AxDisconnect(w, AxRef(key, w.connections[key])), keys \ {key})

\* the loop of TelnetServer.stop over list(self.connections.values())
RECURSIVE HandleDisconnectAll(_, _)
HandleDisconnectAll(w, socks) ==
    IF socks = {} THEN w
    ELSE LET t == CHOOSE u \in socks : TRUE
         IN  HandleDisconnectAll(TelnetHandleDisconnect(w, t), socks \ {t})

\* TelnetServer.stop
TelnetStop(w) == HandleDisconnectAll(w, {w.ttable[k] : k \in DOMAIN w.ttable})

\* PacketClaude.stop
Stop(w) ==
    IF ~w.running THEN w
    ELSE LET w1 == [w EXCEPT !.running = FALSE]
         IN  TelnetStop(DisconnectAll(w1, DOMAIN w1.connections))

\* the data of the clients, the frames of the station and the services' answers
StopTelnetData == {Lower(K0ASM) \o CRLF, L_HELLO \o CRLF}

StopFrames ==
    { Via(create_sabm_frame(W2ASM, W1ABC, 10, 0)),
      IFrame(W2ASM, W1ABC, L_HELLO \o <<13>>, 10, 0) }

StopEnv == [qrz |-> TRUE, unread |-> 0]

InitStop == FrameIdle /\ ProgInit(Sockets)

StopCall ==
    /\ Install(Stop(World))
    /\ handled' = [kind |-> "stop"]
    /\ UNCHANGED frameVars

\* the accept loop and the loop of _run go on while self.running
StopAccept == running /\ AcceptStep

StopKiss == running /\ \E f \in StopFrames : KissFrame(f, StopEnv)

StopNotify == \E t \in Sockets : Notify(t, StopEnv)

\* recv() returns data on a socket that is not closed
StopRecv ==
    \E t \in Sockets, data \in StopTelnetData :
        tconn[t].state = "connected" /\ Recv(t, data, StopEnv)

StopLlmReturn ==
    \E result \in LlmResults :
        \/ LlmReturn(KissThread, result)
        \/ \E t \in Sockets : TelnetLlmReturn(t, result, StopEnv)

NextStop ==
    \/ StopCall
    \/ StopAccept
    \/ StopKiss
    \/ StopNotify
    \/ StopRecv
    \/ CloseStep
    \/ StopLlmReturn

SpecStop == InitStop /\ [][NextStop]_vars

(***************************************************************************)
(* C19: idempotent shutdown.  A second call of stop() after the first has  *)
(* completed changes no state and sends nothing; and after the first       *)
(* stop() has completed the process produces no further frames, socket     *)
(* writes or database rows, the dispatcher turns that were in flight in    *)
(* telnet reader threads when stop() was called included.                  *)
(***************************************************************************)
\* the step leaves the program's tables as they are
TablesUnchanged ==
    UNCHANGED <<running, connections, transfers, files, shares, file_seq, sessions,
                rows, turn, tconn, ttable>>

C19_IdempotentShutdown ==
    [][~running =>
        /\ sent' = <<>>
        /\ rows' = rows
        /\ files' = files
        /\ shares' = shares
        /\ (handled'.kind = "stop" => TablesUnchanged)
    ]_vars

\* what the code does do: a second stop() changes nothing and sends nothing
SecondStopChangesNothing ==
    [][(~running /\ handled'.kind = "stop") => (TablesUnchanged /\ sent' = <<>>)]_vars

\* but a turn that was in the LLM call when stop() ran goes on when the call
\* returns, and writes its query row
InFlightTurnWritesRow ==
    [][(~running /\ handled'.kind = "llm") =>
        /\ Len(rows') = Len(rows) + 1
        /\ turn[handled'.thr] # Null
        /\ turn'[handled'.thr] = Null
    ]_vars

(***************************************************************************)
(* SpecRateSweep: SpecRate with rows growing older than the days the       *)
(* cleanup thread keeps, and the thread's call of cleanup_old_data.        *)
(***************************************************************************)
\* self.database.cleanup_old_data(days=30)
KEEP_DAYS == 30

\* the age, in hours, of a row older than the cut-off of cleanup_old_data
PastCutoff == KEEP_DAYS * DAY_WINDOW + 1

\* a cleanup that keeps an hour of rows only
cleanup_old_data_hour(qs) == SelectSeq(qs, LAMBDA q : q.age < HOUR_WINDOW)

\* Database.cleanup_old_data, on the queries table: DELETE ... WHERE timestamp < cutoff
cleanup_old_data(qs) == SelectSeq(qs, LAMBDA q : q.age < PastCutoff)

\* the call of _cleanup_loop
CleanupOldData ==
    /\ rows' = cleanup_old_data(rows)
    /\ handled' = [kind |-> "cleanup_old_data", deleted |-> Len(rows) - Len(rows')]
    /\ sent' = <<>>
    /\ fired' = <<>>
    /\ UNCHANGED <<fpc, fr, wire, dec, running, connections, transfers, files, shares,
                   file_seq, sessions, turn, tconn, ttable, log>>

\* more time passes: the oldest m rows, a day old already, are now older than the
\* cut-off
Expire(m) ==
    /\ m \in 1..Len(rows)
    /\ \A i \in 1..m : rows[i].age >= DAY_WINDOW
    /\ rows' = [i \in 1..Len(rows) |->
                   IF i <= m THEN [rows[i] EXCEPT !.age = PastCutoff] ELSE rows[i]]
    /\ rows' # rows
    /\ handled' = [kind |-> "clock"]
    /\ sent' = <<>>
    /\ fired' = <<>>
    /\ UNCHANGED <<fpc, fr, wire, dec, running, connections, transfers, files, shares,
                   file_seq, sessions, turn, tconn, ttable, log>>

ExpireStep == \E m \in 1..MaxRateRows : Expire(m)

InitRateSweep == FrameIdle /\ ProgInit({})

NextRateSweep ==
    \/ RateFrameStep
    \/ RateLlmStep
    \/ ElapseStep
    \/ ExpireStep
    \/ CleanupOldData

SpecRateSweep == InitRateSweep /\ [][NextRateSweep]_vars

(***************************************************************************)
(* C20: rate monotonicity.  If check(cs) denies at some moment, every      *)
(* later check(cs) made while the query rows counted for that denial are   *)
(* still inside their hour or day window denies too; no operation of the   *)
(* dispatcher or of the persistence, other than the window sliding past    *)
(* those rows, lowers the count of successful queries the decision uses.   *)
(***************************************************************************)
\* the callsigns checked, as their callers write them
CheckedCallsigns == {W1ABC, Lower(W1ABC), K0ASM}

\* the positions of the rows a check of the callsign counts in a window
Counted(qs, cs, window) ==
    {i \in 1..Len(qs) : /\ qs[i].callsign = Upper(cs)
                        /\ qs[i].age < window
                        /\ qs[i].error = <<>>}

\* the step is one of the clock, and leaves the rows counted inside the window
StillInside(cs, window) ==
    \A i \in Counted(rows, cs, window) : rows'[i].age < window

\* every step that is not one of the clock keeps or raises both counts of every
\* callsign, and a check that denied before it denies after it; a step of the
\* clock that leaves the counted rows inside both windows does so too
C20_RateMonotonicity ==
    [][\A cs \in CheckedCallsigns :
        (handled'.kind = "clock" => StillInside(cs, HOUR_WINDOW) /\ StillInside(cs, DAY_WINDOW))
        => /\ Cardinality(Counted(rows', cs, HOUR_WINDOW))
                >= Cardinality(Counted(rows, cs, HOUR_WINDOW))
           /\ Cardinality(Counted(rows', cs, DAY_WINDOW))
                >= Cardinality(Counted(rows, cs, DAY_WINDOW))
           /\ (~check_limit(rows, cs).allowed => ~check_limit(rows', cs).allowed)
    ]_vars

\* the cleanup has deleted rows while the checks of W1ABC are denied, and they
\* are denied still
DeniedAcrossCleanup ==
    /\ handled.kind = "cleanup_old_data"
    /\ handled.deleted > 0
    /\ ~check_limit(rows, W1ABC).allowed
    /\ Counted(rows, W1ABC, DAY_WINDOW) # {}

(***************************************************************************)
(* SpecGate: one telnet client connects, answers the NEW-ENVIRON request   *)
(* or not, and types callsigns, words and commands before and after it is  *)
(* authenticated; each LLM call returns at any later time.                 *)
(***************************************************************************)
\* the lines the client types, each in a recv() of its own
TypedLines == {Lower(K0ASM), W1ABC, L_HELLO, L_HELP, L_CLEAR, L_QUIT}

\* what one recv() of the client's socket returns
GateData == {EnvUserK0ASM} \cup {line \o CRLF : line \in TypedLines}

InitGate == FrameIdle /\ ProgInit(Sockets)

GateAccept == Accept("s1")

GateNotify == \E env \in Envs : Notify("s1", env)

GateRecv == \E data \in GateData, env \in Envs : Recv("s1", data, env)

GateClose == PeerClose("s1")

GateLlmReturn == \E result \in LlmResults, env \in Envs : TelnetLlmReturn("s1", result, env)

NextGate == GateAccept \/ GateNotify \/ GateRecv \/ GateClose \/ GateLlmReturn

SpecGate == InitGate /\ [][NextGate]_vars

(***************************************************************************)
(* C21: authentication gate.  A line received while the session of the     *)
(* connection is unauthenticated is never executed as a command, never     *)
(* rate-checked and never sent to the LLM.  If it does not match the       *)
(* callsign pattern the session stays unauthenticated and only the         *)
(* reprompt is sent; if it matches, the session becomes authenticated      *)
(* whether or not the directory lookup finds the operator.                 *)
(***************************************************************************)
\* the session the dispatcher finds for the connection of socket t
HasAuthenticatedSession(ss, tc) ==
    /\ Has(ss, Upper(TelnetRemoteAddress(tc)))
    /\ ss[Upper(TelnetRemoteAddress(tc))].authenticated

C21_AuthenticationGate ==
    [][\A t \in DOMAIN tconn : \A line \in TypedLines :
          ( /\ Received(handled', t, line \o CRLF)
            /\ tconn[t].state = "connected"
            /\ ~HasAuthenticatedSession(sessions, tconn[t]) ) =>
              /\ turn'[t] = Null
              /\ rows' = rows
              /\ tconn'[t].state = "connected"
              /\ \A i \in 1..Len(sent') : sent'[i].data # TXT_TYPING
              /\ IF MatchCallsign(Upper(Strip(line)))
                 THEN HasAuthenticatedSession(sessions', tconn'[t])
                 ELSE /\ sent' = <<[kind |-> "tcp", sock |-> t,
                                    data |-> TXT_INVALID_CALLSIGN]>>
                      /\ tconn' = tconn
                      /\ ~HasAuthenticatedSession(sessions', tconn'[t])
    ]_vars

\* a callsign line has been accepted although the lookup found nobody: the
\* session carries the callsign in place of the operator's name
AcceptedWithoutLookup ==
    \E t \in DOMAIN tconn :
        /\ Received(handled, t, Lower(K0ASM) \o CRLF)
        /\ HasAuthenticatedSession(sessions, tconn[t])
        /\ sessions[K0ASM].operator_info.fullname = K0ASM

\* the word 'quit' typed before the callsign has been answered by the reprompt
QuitBeforeLogin ==
    \E t \in DOMAIN tconn :
        /\ Received(handled, t, L_QUIT \o CRLF)
        /\ tconn[t].state = "connected"
        /\ ~HasAuthenticatedSession(sessions, tconn[t])
        /\ Written(sent, t) = {TXT_INVALID_CALLSIGN}

(***************************************************************************)
(* SpecCommands: the station W1ABC, connected over AX.25, sends commands,   *)
(* file commands and a query in any order.  The database holds one file    *)
(* that W1ABC stored in an earlier run.  The LLM call returns a reply or   *)
(* an error, and the database calls after it succeed or raise.             *)
(***************************************************************************)
\* ' 1', ' 2', ' x' and ' 1 K0ASM': the arguments of the file commands
ARG_1 == <<32, 49>>
ARG_2 == <<32, 50>>
ARG_X == <<32, 120>>
ARG_1_K0ASM == ARG_1 \o <<32>> \o K0ASM

\* the lines the station sends
CommandLines ==
    {L_HELP, L_STATUS, L_CLEAR, L_HELLO, L_FILES, L_UPLOAD,
     L_DOWNLOAD, L_DOWNLOAD \o ARG_X, L_DOWNLOAD \o ARG_1, L_DOWNLOAD \o ARG_2,
     L_FILEINFO \o ARG_1, L_SHARE \o ARG_1_K0ASM, L_PUBLICFILE \o ARG_1,
     L_DELETEFILE \o ARG_1}

\* the frames of W1ABC: the connection, and a line in an I frame
CommandFrames ==
    {Via(create_sabm_frame(W2ASM, W1ABC, 10, 0))}
        \cup {IFrame(W2ASM, W1ABC, line \o <<13>>, 10, 0) : line \in CommandLines}

\* what the services answer during a handler, with the SQLite build's handling
\* of foreign keys
CommandEnvs == [qrz : {TRUE}, unread : {0}, cascade : BOOLEAN]

\* what send_message returns and which database calls raise after it
CommandResults ==
    LlmResults \cup {[error |-> <<>>, text |-> LLM_REPLY, raises |-> {"log_query"}],
                     [error |-> <<>>, text |-> LLM_REPLY,
                      raises |-> {"log_query", "log_error"}]}

\* the file of the earlier run
StoredFile ==
    [id |-> 1, filename |-> FN_T_TXT, file_data |-> DATA_HEL, file_size |-> Len(DATA_HEL),
     checksum |-> calculate_checksum(DATA_HEL), owner_callsign |-> W1ABC,
     access_level |-> "private", download_count |-> 0]

InitCommands == FrameIdle /\ ProgInitOver({}, <<StoredFile>>)

\* the download counts and the shares stay within their bounds
TablesBounded ==
    /\ \A i \in 1..Len(files) : files[i].download_count < MaxDownloads + 1
    /\ Len(shares) < MaxShares + 1

CommandFrame ==
    /\ TablesBounded
    /\ \E f \in CommandFrames, env \in CommandEnvs : KissFrame(f, env)

CommandLlmReturn == \E result \in CommandResults : LlmReturn(KissThread, result)

NextCommands == CommandFrame \/ CommandLlmReturn

SpecCommands == InitCommands /\ [][NextCommands]_vars

(***************************************************************************)
(* C22: prompt invariant.  For every inbound line from an authenticated    *)
(* session, the last bytes the dispatcher sends in response (LLM reply,    *)
(* output of help, status, clear and of every file command, rate denial,   *)
(* engine error, internal error) are the prompt "\n> ".  On AX.25 the      *)
(* newline of the prompt arrives as CR.                                    *)
(***************************************************************************)
\* the last step handled the line for W1ABC, connected, authenticated and not in
\* a file transfer
StationLine(h, conns, ss, line) ==
    /\ h.kind = "frame"
    /\ h.decoded
    /\ h.frame.info = line \o <<13>>
    /\ Has(conns, WithSsid(W1ABC, 0))
    /\ conns[WithSsid(W1ABC, 0)].state = "connected"
    /\ ~conns[WithSsid(W1ABC, 0)].in_yapp_mode
    /\ Has(ss, W1ABC)
    /\ ss[W1ABC].authenticated

\* the step has answered the station with a text that ends in the prompt
StationPrompted == EndsWith(ReceivedText(sent'), NlToCr(TXT_NL_PROMPT))

C22_PromptInvariant ==
    [][/\ \A line \in CommandLines :
             ( StationLine(handled', connections, sessions, line)
               /\ turn'[KissThread] = Null ) => StationPrompted
       /\ ( /\ handled'.kind = "llm"
            /\ Has(connections, WithSsid(W1ABC, 0))
            /\ connections[WithSsid(W1ABC, 0)].state = "connected" ) => StationPrompted
    ]_vars

\* what the code does do: the prompt ends every answer but that of a command
\* which starts a file transfer, and that of a turn whose handler ends in an
\* exception of its own
PromptUnlessTransferStarts ==
    [][/\ \A line \in CommandLines :
             ( StationLine(handled', connections, sessions, line)
               /\ turn'[KissThread] = Null
               /\ ~connections'[WithSsid(W1ABC, 0)].in_yapp_mode ) => StationPrompted
       /\ ( /\ handled'.kind = "llm"
            /\ "log_error" \notin handled'.result.raises
            /\ Has(connections, WithSsid(W1ABC, 0))
            /\ connections[WithSsid(W1ABC, 0)].state = "connected" ) => StationPrompted
    ]_vars

\* the upload command has been answered by the invitation and the first packet
UploadStartedWithoutPrompt ==
    /\ handled.kind = "frame"
    /\ handled.frame.info = L_UPLOAD \o <<13>>
    /\ Has(connections, WithSsid(W1ABC, 0))
    /\ connections[WithSsid(W1ABC, 0)].in_yapp_mode
    /\ ReceivedText(sent) = NlToCr(TXT_UPLOAD_READY) \o <<YAPP_ACK>>

(***************************************************************************)
(* SpecFragment: the station W1ABC, connected over AX.25, sends queries,   *)
(* and the LLM answers with replies of several lengths around the chunk    *)
(* size, made of characters whose UTF-8 encodings take one to four bytes.  *)
(***************************************************************************)
\* 'A', 'é', '€' and an emoji: characters of one, two, three and four bytes
FillCharacters == {65, 233, 8364, 128512}

\* the lengths of the replies, in characters
FillLengths == {1, CHUNK_SIZE - 4, CHUNK_SIZE - 3, CHUNK_SIZE - 2, 2 * CHUNK_SIZE - 3}

\* how a reply starts
ReplyStarts == {<<>>, <<13, 10>>, <<10>>}

\* n times the character ch
Fill(ch, n) == [i \in 1..n |-> ch]

FragmentReplies ==
    {start \o Fill(ch, n) : start \in ReplyStarts, ch \in FillCharacters, n \in FillLengths}

FragmentResults ==
    {[error |-> <<>>, text |-> text, raises |-> {}] : text \in FragmentReplies}
        \cup {[error |-> LLM_ERROR, text |-> <<>>, raises |-> {}]}

FragmentFrames ==
    { Via(create_sabm_frame(W2ASM, W1ABC, 10, 0)),
      IFrame(W2ASM, W1ABC, L_HELLO \o <<13>>, 10, 0) }

InitFragment == FrameIdle /\ ProgInit({})

FragmentFrame == \E f \in FragmentFrames, env \in Envs : KissFrame(f, env)

FragmentLlmReturn == \E result \in FragmentResults : LlmReturn(KissThread, result)

NextFragment == FragmentFrame \/ FragmentLlmReturn

SpecFragment == InitFragment /\ [][NextFragment]_vars

(***************************************************************************)
(* C23: fragmentation.  For any reply sent to an AX.25 connection,         *)
(* including replies containing multi-byte UTF-8 characters, every UI      *)
(* frame's info field is at most 200 bytes, the fragments are sent in      *)
(* order, and their concatenation equals the UTF-8 encoding of the reply   *)
(* with newlines translated to CR.                                         *)
(***************************************************************************)
\* the info fields of the UI frames of the last step, in the order sent
Fragments(out) ==
    LET ui == SelectSeq(out, LAMBDA o : o.kind = "frame" /\ is_ui_frame(o.frame))
    IN  [i \in 1..Len(ui) |-> ui[i].frame.info]

\* the step is the return of the LLM with a reply for the connected station
ReplySent(h, conns) ==
    /\ h.kind = "llm"
    /\ h.result.error = <<>>
    /\ Has(conns, WithSsid(W1ABC, 0))
    /\ conns[WithSsid(W1ABC, 0)].state = "connected"

\* what _on_data hands to _send_to_station for the reply
ReplyMessage(h) == Truncated(h.result.text) \o TXT_NL_PROMPT

\* the fragments are of at most 200 bytes and make up the encoded message
FragmentsOfBytes(parts, message) ==
    /\ \A i \in 1..Len(parts) : Len(parts[i]) <= 200
    /\ Joined(parts) = Utf8Encode(message)

C23_Fragmentation ==
    [][ReplySent(handled', connections) =>
        FragmentsOfBytes(Fragments(sent'), NlToCr(ReplyMessage(handled')))
    ]_vars

\* what the code does do: every fragment is the encoding of at most 200
\* characters, which is at most 200 bytes when the reply is ASCII and up to four
\* times as much when it is not; order and concatenation are as stated
SlicesOfCharacters(parts, message) ==
    /\ Len(parts) = (Len(message) + CHUNK_SIZE - 1) \div CHUNK_SIZE
    /\ \A i \in 1..Len(parts) :
           parts[i] = Utf8Encode(Slice(message, (i - 1) * CHUNK_SIZE + 1, i * CHUNK_SIZE))
    /\ Joined(parts) = Utf8Encode(message)
    /\ (\A i \in 1..Len(message) : message[i] < 128)
           => \A i \in 1..Len(parts) : Len(parts[i]) <= CHUNK_SIZE

FragmentsOfCharacters ==
    [][ReplySent(handled', connections) =>
        SlicesOfCharacters(Fragments(sent'), NlToCr(ReplyMessage(handled')))
    ]_vars

\* a reply of 200 characters has been sent in one frame of more than 200 bytes
FragmentOverTwoHundredBytes ==
    /\ handled.kind = "llm"
    /\ handled.result.error = <<>>
    /\ Len(NlToCr(ReplyMessage(handled))) <= CHUNK_SIZE
    /\ Len(Fragments(sent)) = 1
    /\ Len(Fragments(sent)[1]) > 200

(***************************************************************************)
(* SpecRecovery: one telnet client logs in and sends queries; the LLM call *)
(* returns a reply or an error, and the database calls that follow it      *)
(* (log_query, and log_error in the error handler) succeed or raise.       *)
(***************************************************************************)
\* what one recv() of the client's socket returns
RecoveryData == {line \o CRLF : line \in {K0ASM, L_HELLO, L_HELP}}

\* what send_message returns and which database calls raise after it
RecoveryResults ==
    {[error |-> e, text |-> IF e = <<>> THEN LLM_REPLY ELSE <<>>, raises |-> r] :
        e \in {<<>>, LLM_ERROR}, r \in {{}, {"log_query"}, {"log_query", "log_error"}}}

InitRecovery == FrameIdle /\ ProgInit(Sockets)

RecoveryAccept == Accept("s1")

RecoveryNotify == \E env \in Envs : Notify("s1", env)

RecoveryRecv == \E data \in RecoveryData, env \in Envs : Recv("s1", data, env)

RecoveryClose == PeerClose("s1")

RecoveryLlmReturn ==
    \E result \in RecoveryResults, env \in Envs : TelnetLlmReturn("s1", result, env)

NextRecovery ==
    RecoveryAccept \/ RecoveryNotify \/ RecoveryRecv \/ RecoveryClose \/ RecoveryLlmReturn

SpecRecovery == InitRecovery /\ [][NextRecovery]_vars

(***************************************************************************)
(* C24: recovery boundary.  If a step of processing an inbound line fails  *)
(* (engine call, persistence), the process keeps running, the connection   *)
(* stays in its transport table in the same state, its session is          *)
(* retained, the sender receives 'Internal error. Please try again.'       *)
(* followed by the prompt (or the engine error text for an engine          *)
(* failure), and later lines from that connection are still processed.     *)
(***************************************************************************)
\* the step is the return of the LLM call of a connected client, and the turn
\* fails: the engine returns an error or a database call raises
TurnFails(h, tc) ==
    /\ h.kind = "llm"
    /\ h.thr = "s1"
    /\ tc.state = "connected"
    /\ (h.result.error # <<>> \/ h.result.raises # {})

\* the texts the sender may receive for the failure
FailureTexts(result) ==
    {TXT_INTERNAL_ERROR}
        \cup (IF result.error # <<>> THEN {TXT_ERROR_1 \o result.error \o TXT_ERROR_2}
              ELSE {})

\* the connection and the session survive the step and the sender is told
Recovered(result) ==
    /\ running'
    /\ ttable' = ttable
    /\ tconn'["s1"].state = "connected"
    /\ tconn'["s1"].receiving
    /\ Has(sessions', Upper(TelnetRemoteAddress(tconn["s1"])))
    /\ \E text \in FailureTexts(result) :
           sent' = <<[kind |-> "tcp", sock |-> "s1", data |-> text]>>

C24_RecoveryBoundary ==
    [][TurnFails(handled', tconn["s1"]) => Recovered(handled'.result)]_vars

\* what the code does do: the turn recovers as long as the error handler's own
\* database write succeeds
RecoveryUnlessHandlerFails ==
    [][( TurnFails(handled', tconn["s1"])
         /\ "log_error" \notin handled'.result.raises ) => Recovered(handled'.result)
    ]_vars

\* when the error handler's database write raises too, the receive loop ends:
\* nothing is sent and the connection is closed and taken out of the table
HandlerFailureDisconnects ==
    [][( TurnFails(handled', tconn["s1"])
         /\ "log_error" \in handled'.result.raises ) =>
           /\ sent' = <<>>
           /\ tconn'["s1"].state = "disconnected"
           /\ ~tconn'["s1"].receiving
           /\ ~Has(ttable', TelnetRemoteAddress(tconn["s1"]))
    ]_vars

\* a turn whose database calls raised has ended the connection of a logged-in
\* client
DroppedAfterFailure ==
    /\ handled.kind = "llm"
    /\ "log_error" \in handled.result.raises
    /\ tconn["s1"].callsign = K0ASM
    /\ tconn["s1"].state = "disconnected"
    /\ ttable = EmptyDict
    /\ sent = <<>>

(***************************************************************************)
(* ClaudeClient.send_message and _execute_tool.  A response of the API is  *)
(* a record of its stop_reason, its content blocks and its usage; a tool   *)
(* is the record of its name and of whether its class has an execute_tool  *)
(* method.  What a tool returns is kept as a record that tells which tool  *)
(* produced it.                                                            *)
(***************************************************************************)
\* max_tool_iterations of send_message
max_tool_iterations == 5

\* the names of the tools
BAND_CONDITIONS == "band_conditions"
QRZ_LOOKUP == "qrz_lookup"
BBS_SESSION == "bbs_session"

\* BandConditionsTool and QRZTool define execute_tool; BBSSessionTool defines
\* execute only
BandConditionsTool == [name |-> BAND_CONDITIONS, has_execute_tool |-> TRUE]
QRZTool == [name |-> QRZ_LOOKUP, has_execute_tool |-> TRUE]
BBSSessionTool == [name |-> BBS_SESSION, has_execute_tool |-> FALSE]

\* content blocks
TextBlock(text) == [type |-> "text", text |-> text]
ToolUseBlock(name, id) == [type |-> "tool_use", name |-> name, id |-> id]

\* hasattr(block, 'text')
HasText(block) == block.type = "text"

\* tool.execute_tool(tool_name, tool_input) of every tool class: the tool's
\* output for its own name, an error text for any other name.  raising holds
\* the tools whose own work raises
ToolExecuteTool(tool, tool_name, raising) ==
    IF tool_name = tool.name
    THEN IF tool.name \in raising THEN [raised |-> TRUE]
         ELSE [raised |-> FALSE, kind |-> "output", by |-> tool.name, name |-> tool_name]
    ELSE [raised |-> FALSE, kind |-> "unknown_tool", by |-> tool.name, name |-> tool_name]

\* ClaudeClient._execute_tool: the loop returns in its first iteration whose
\* tool has an execute_tool method
execute_tool(tools, tool_name, raising) ==
    LET able == SelectSeq(tools, LAMBDA tool : tool.has_execute_tool)
    IN  IF able # <<>> THEN ToolExecuteTool(Head(able), tool_name, raising)
        ELSE [raised |-> FALSE, kind |-> "not_found", by |-> None, name |-> tool_name]

\* lines 105-127: the tool_result of one tool_use block
ToolResult(tools, block, raising) ==
    LET result == execute_tool(tools, block.name, raising)
    IN  [type |-> "tool_result", tool_use_id |-> block.id,
         content |-> IF result.raised
                     THEN [kind |-> "failed", by |-> None, name |-> block.name]
                     ELSE [kind |-> result.kind, by |-> result.by, name |-> result.name]]

\* lines 105-127: the tool results of a response, in the order of its blocks
ToolResults(tools, content, raising) ==
    LET uses == SelectSeq(content, LAMBDA block : block.type = "tool_use")
    IN  [i \in 1..Len(uses) |-> ToolResult(tools, uses[i], raising)]

\* lines 146-150: the texts of the blocks that have one, concatenated
RECURSIVE ResponseText(_)
ResponseText(content) ==
    IF content = <<>> THEN <<>>
    ELSE (IF HasText(Head(content)) THEN Head(content).text ELSE <<>>)
             \o ResponseText(Tail(content))

\* response.usage.input_tokens + response.usage.output_tokens
UsageTokens(response) == response.usage.input_tokens + response.usage.output_tokens

\* a loop that makes one round more
ToolLoopOneMore(response, iteration) ==
    response.stop_reason = "tool_use" /\ iteration < max_tool_iterations + 1

\* line 96: the test of the tool loop
ToolLoopContinues(response, iteration) ==
    response.stop_reason = "tool_use" /\ iteration < max_tool_iterations

\* the activation of send_message when it calls messages.create for the first
\* time: the rounds made, the tokens counted, the number of messages in
\* api_params, the tool results of the last round, and, as history, the usage of
\* every response received
NewCall ==
    [iteration |-> 0, total_tokens |-> 0, messages |-> 1, tool_results |-> <<>>,
     response |-> [stop_reason |-> None, content |-> <<>>,
                   usage |-> [input_tokens |-> 0, output_tokens |-> 0]],
     raising |-> {}, usages |-> <<>>]

\* lines 92-142: send_message from the return of messages.create with the
\* response to the next call of messages.create
ToolRound(client, act, response, raising) ==
    [iteration |-> act.iteration + 1,
     total_tokens |-> act.total_tokens + UsageTokens(response),
     messages |-> act.messages + 2,
     tool_results |-> ToolResults(client.tools, response.content, raising),
     response |-> response,
     raising |-> raising,
     usages |-> Append(act.usages, UsageTokens(response))]

\* what send_message returns: (response_text, tokens_used, error).  The None of
\* a text is the empty text here and the None of the tokens is 0: the caller
\* tests error before it reads them
Return(response_text, tokens_used, error) ==
    [response_text |-> response_text, tokens_used |-> tokens_used, error |-> error]

\* lines 144-158: what send_message returns for the last response
Returned(act, response) ==
    Return(ResponseText(response.content), act.total_tokens + UsageTokens(response), <<>>)

(***************************************************************************)
(* SpecToolLoop: a ClaudeClient built with some of the tools, in some      *)
(* order, runs send_message again and again; the API answers every call    *)
(* with any response, or the call raises, and any tool may raise.          *)
(***************************************************************************)
\* the tools lists a client is built with
Registries ==
    {<<>>, <<BBSSessionTool>>,
     <<BandConditionsTool, BBSSessionTool, QRZTool>>,
     <<QRZTool, BBSSessionTool, BandConditionsTool>>,
     <<BBSSessionTool, QRZTool>>}

\* the contents of a response
Contents ==
    {<<>>,
     <<TextBlock(LLM_REPLY)>>,
     <<TextBlock(LLM_REPLY), ToolUseBlock(QRZ_LOOKUP, "id1"), TextBlock(LLM_ERROR),
       ToolUseBlock(BAND_CONDITIONS, "id2")>>,
     <<ToolUseBlock(BBS_SESSION, "id1")>>}

Responses ==
    [stop_reason : {"tool_use", "end_turn"}, content : Contents,
     usage : [input_tokens : {1}, output_tokens : {1, 2}]]

InitToolLoop ==
    /\ fpc = "idle"
    /\ fr \in [tools : Registries]
    /\ wire = NewCall
    /\ dec = Return(<<>>, 0, <<>>)
    /\ ProgIdle

\* send_message is called and calls messages.create
SendMessage ==
    /\ fpc \in {"idle", "returned"}
    /\ fpc' = "create"
    /\ wire' = NewCall
    /\ dec' = Return(<<>>, 0, <<>>)
    /\ UNCHANGED fr
    /\ UNCHANGED progVars

\* messages.create returns a response to send_message, which runs the tools and
\* calls messages.create again, or returns; what is kept of a returned call is
\* its rounds, its last response and its history
CreateReturns(response, raising) ==
    /\ fpc = "create"
    /\ IF ToolLoopContinues(response, wire.iteration)
       THEN /\ wire' = ToolRound(fr, wire, response, raising)
            /\ UNCHANGED <<fpc, dec>>
       ELSE /\ raising = {}
            /\ dec' = Returned(wire, response)
            /\ wire' = [NewCall EXCEPT !.iteration = wire.iteration,
                                       !.response = response,
                                       !.usages = Append(wire.usages,
                                                         UsageTokens(response))]
            /\ fpc' = "returned"
    /\ UNCHANGED fr
    /\ UNCHANGED progVars

\* messages.create raises: the except clauses of send_message
CreateRaises ==
    /\ fpc = "create"
    /\ dec' = Return(<<>>, 0, LLM_ERROR)
    /\ fpc' = "returned"
    /\ UNCHANGED <<fr, wire>>
    /\ UNCHANGED progVars

\* no tool raises, or every tool does
Raisings == {{}, {BAND_CONDITIONS, QRZ_LOOKUP}}

ApiAnswers ==
    \E response \in Responses, raising \in Raisings : CreateReturns(response, raising)

NextToolLoop == SendMessage \/ ApiAnswers \/ CreateRaises

SpecToolLoop == InitToolLoop /\ [][NextToolLoop]_vars

\* every call of messages.create ends: the API answers or the call raises
SpecToolLoopFair == SpecToolLoop /\ WF_vars(ApiAnswers \/ CreateRaises)

(***************************************************************************)
(* C25: tool-loop bound.  For any behaviour of the LLM client, including   *)
(* one that answers stop_reason=tool_use forever, a turn terminates after  *)
(* executing at most 5 rounds of tool calls, and returns the concatenated   *)
(* text blocks of the last response received together with the token       *)
(* usage summed over every client response of the turn.                    *)
(***************************************************************************)
\* the sum of a sequence of numbers
RECURSIVE SumOf(_)
SumOf(ns) == IF ns = <<>> THEN 0 ELSE Head(ns) + SumOf(Tail(ns))

\* at most five rounds are made, and a sixth response ends the turn
AtMostFiveRounds ==
    /\ wire.iteration <= 5
    /\ Len(wire.usages) <= 6
    /\ fpc = "create" => Len(wire.usages) = wire.iteration /\ Len(wire.usages) <= 5

\* a turn that ends without an exception returns the text of the last response
\* and the tokens of all responses
ReturnsLastTextAndAllTokens ==
    (fpc = "returned" /\ dec.error = <<>>) =>
        /\ dec.response_text = ResponseText(wire.response.content)
        /\ dec.tokens_used = SumOf(wire.usages)
        /\ Len(wire.usages) = wire.iteration + 1

C25_ToolLoopBound ==
    /\ [](AtMostFiveRounds /\ ReturnsLastTextAndAllTokens)
    /\ (fpc = "create") ~> (fpc = "returned")

\* a turn has ended after five rounds on a sixth response that asks for tools
\* again: its text is returned and its tools are not run
EndedByTheBound ==
    /\ fpc = "returned"
    /\ dec.error = <<>>
    /\ wire.iteration = 5
    /\ wire.response.stop_reason = "tool_use"
    /\ \E i \in 1..Len(wire.response.content) : wire.response.content[i].type = "tool_use"
    /\ dec.response_text = LLM_REPLY \o LLM_ERROR
    /\ dec.tokens_used > 12

(***************************************************************************)
(* C26: tool dispatch.  Each tool_use block returned by the LLM is         *)
(* executed by the registered tool whose name equals the block's name,     *)
(* independently of the order in which tools were registered, and the      *)
(* tool's output is fed back as the tool_result carrying the same          *)
(* tool_use_id; a tool that raises produces an error result instead of     *)
(* aborting the turn.                                                      *)
(***************************************************************************)
\* the tool_use blocks of the response whose tools the last round ran
ToolUses == SelectSeq(wire.response.content, LAMBDA block : block.type = "tool_use")

\* a round of tools has been made and its results are in the next call
RoundMade == fpc = "create" /\ wire.iteration > 0

\* the tool of that name is among the tools the client was built with
Registered(name) == \E i \in 1..Len(fr.tools) : fr.tools[i].name = name

\* the result of the tool of that name: its output, or the error result when
\* it raised
ByNamedTool(content, name) ==
    IF name \in wire.raising THEN content.kind = "failed"
    ELSE content.kind = "output" /\ content.by = name

\* the results carry the ids of the blocks, in the order of the blocks
ResultsCarryIds ==
    RoundMade =>
        /\ Len(wire.tool_results) = Len(ToolUses)
        /\ \A i \in 1..Len(ToolUses) :
               /\ wire.tool_results[i].type = "tool_result"
               /\ wire.tool_results[i].tool_use_id = ToolUses[i].id

C26_ToolDispatch ==
    /\ ResultsCarryIds
    /\ RoundMade =>
          \A i \in 1..Len(ToolUses) :
              Registered(ToolUses[i].name) =>
                  ByNamedTool(wire.tool_results[i].content, ToolUses[i].name)

\* what the code does do: every block is handed to the first of the tools that
\* has an execute_tool method, so that only blocks naming that tool are
\* executed; the others are answered with an error text by that tool, and with
\* a not-found text when no tool has the method
FirstToolAnswersAll ==
    RoundMade =>
        LET able == SelectSeq(fr.tools, LAMBDA tool : tool.has_execute_tool)
        IN  \A i \in 1..Len(ToolUses) :
                LET content == wire.tool_results[i].content
                    name == ToolUses[i].name
                IN  /\ content.name = name
                    /\ IF able = <<>> THEN content.kind = "not_found"
                       ELSE IF name = Head(able).name THEN ByNamedTool(content, name)
                       ELSE content.kind = "unknown_tool" /\ content.by = Head(able).name

\* a tool that raises does not end the turn: its error result is in the next
\* call
RaisingToolGivesErrorResult ==
    /\ RoundMade
    /\ \E i \in 1..Len(ToolUses) : wire.tool_results[i].content.kind = "failed"

\* a block naming the registered tool qrz_lookup has been answered by the tool
\* band_conditions, registered before it
AnsweredByAnotherTool ==
    /\ RoundMade
    /\ Registered(QRZ_LOOKUP)
    /\ \E i \in 1..Len(ToolUses) :
           /\ ToolUses[i].name = QRZ_LOOKUP
           /\ wire.tool_results[i].content.kind = "unknown_tool"
           /\ wire.tool_results[i].content.by = BAND_CONDITIONS

(***************************************************************************)
(* SpecStrip: a telnet client sends a stream made of text bytes and of     *)
(* well-formed telnet command sequences, and the receive loop reads it in  *)
(* one piece or in two, handing each piece to _parse_telnet_data.          *)
(***************************************************************************)
\* the most items a stream is made of
MaxItems == 3

\* 'LOGNAME' VALUE 'k0asm' in a NEW-ENVIRON subnegotiation
EnvLognameK0asm ==
    <<IAC, SB, TELOPT_NEW_ENVIRON, 0, ENV_VAR>> \o ENV_LOGNAME \o <<ENV_VALUE>>
        \o Lower(K0ASM) \o <<IAC, SE>>

\* the items of a stream: the bytes sent, the text bytes they stand for and the
\* login name they carry
StreamItem(bytes, text, login) == [bytes |-> bytes, text |-> text, login |-> login]

StreamItems ==
    {StreamItem(<<65>>, <<65>>, <<>>),
     StreamItem(<<IAC, WILL, TELOPT_NEW_ENVIRON>>, <<>>, <<>>),
     StreamItem(<<IAC, IAC>>, <<IAC>>, <<>>),
     StreamItem(<<IAC, SB, 24, 0, 65, IAC, SE>>, <<>>, <<>>),
     StreamItem(EnvLognameK0asm, <<>>, Lower(K0ASM))}

Streams == SeqsUpTo(StreamItems, MaxItems) \ {<<>>}

\* the bytes and the text bytes of a stream
StreamBytes(items) == Joined([i \in 1..Len(items) |-> items[i].bytes])
StreamText(items) == Joined([i \in 1..Len(items) |-> items[i].text])

\* the callsign a stream gives the connection: its login name, upper-cased
StreamCallsign(items) ==
    IF \E i \in 1..Len(items) : items[i].login # <<>> THEN Upper(Lower(K0ASM)) ELSE <<>>

\* the offsets of the stream at which an item ends
ItemEnds(items) == {Len(StreamBytes(SubSeq(items, 1, j))) : j \in 0..Len(items)}

InitStrip ==
    /\ fpc = "stream"
    /\ fr \in Streams
    /\ wire = StreamBytes(fr)
    /\ dec = <<>>
    /\ ProgInit(Sockets)

StripAccept == Accept("s1")

StripNotify == \E env \in Envs : Notify("s1", env)

\* how the stream has been read so far: in one read ("whole"), in several
\* reads that all ended where an item ends ("items"), or with a read that ended
\* inside an item ("cut")
ReadSoFar(was, total, left) ==
    IF was = "cut" \/ (total - left) \notin ItemEnds(fr) THEN "cut"
    ELSE IF was = "stream" /\ left = 0 THEN "whole"
    ELSE "items"

\* recv() returns the next k bytes of the stream and _parse_telnet_data strips
\* them: dec collects what it returns
StripRead(k) ==
    /\ tconn["s1"].receiving
    /\ LET parsed == ParseTelnetData(World, "s1", SubSeq(wire, 1, k))
       IN  /\ Install(parsed.w)
           /\ dec' = dec \o parsed.data
    /\ wire' = SubSeq(wire, k + 1, Len(wire))
    /\ fpc' = ReadSoFar(fpc, Len(StreamBytes(fr)), Len(wire) - k)
    /\ handled' = [kind |-> "recv", sock |-> "s1", data |-> SubSeq(wire, 1, k)]
    /\ UNCHANGED fr

\* the stream arrives in one read, or in two, cut at any byte
StripReadStep == \E k \in 1..Len(wire) : (fpc = "stream" \/ k = Len(wire)) /\ StripRead(k)

NextStrip == StripAccept \/ StripNotify \/ StripReadStep

SpecStrip == InitStrip /\ [][NextStrip]_vars

(***************************************************************************)
(* C27: telnet command stripping.  For any inbound byte stream made of     *)
(* text bytes and well-formed command sequences (IAC WILL/WONT/DO/DONT     *)
(* <opt>, IAC SB <opt> ... IAC SE, IAC IAC), the bytes handed to line      *)
(* buffering are exactly the text bytes in their original order (IAC IAC   *)
(* yielding one 0xFF), and a NEW_ENVIRON subnegotiation's USER or LOGNAME  *)
(* value becomes the connection callsign upper-cased; the result does not  *)
(* depend on how the stream is split across socket reads.                  *)
(***************************************************************************)
\* the stream has been read to its end
StreamRead == fpc # "stream" /\ wire = <<>>

\* what was handed on is the text, and the connection has the login name
Stripped ==
    /\ dec = StreamText(fr)
    /\ tconn["s1"].callsign = StreamCallsign(fr)

C27_CommandStripping == StreamRead => Stripped

\* what the code does do: each read is parsed on its own, so the stream is
\* stripped when no read ends inside a command sequence
StrippedWhenReadsEndAtItems == (StreamRead /\ fpc \in {"whole", "items"}) => Stripped

\* a command cut by the end of a read has sent its bytes on as text
CommandBytesAsText ==
    /\ StreamRead
    /\ fpc = "cut"
    /\ fr = <<StreamItem(<<IAC, WILL, TELOPT_NEW_ENVIRON>>, <<>>, <<>>)>>
    /\ dec = <<WILL, TELOPT_NEW_ENVIRON>>

\* a login name has been read in one read together with text and a command
LoginStripped ==
    /\ StreamRead
    /\ fpc = "whole"
    /\ Len(fr) = 3
    /\ tconn["s1"].callsign = K0ASM
    /\ dec = <<65, IAC>>

(***************************************************************************)
(* SpecLines: a telnet client sends text and line terminators in any       *)
(* mixture, and the receive loop reads the stream in pieces of any         *)
(* lengths.                                                                *)
(***************************************************************************)
\* the longest stream
MaxStream == 5

\* 'A', CR and LF
LineBytes == {65, 13, 10}

LineStreams == SeqsUpTo(LineBytes, MaxStream) \ {<<>>}

InitLines ==
    /\ fpc = "stream"
    /\ fr \in LineStreams
    /\ wire = fr
    /\ dec = <<>>
    /\ ProgInit(Sockets)

LinesAccept == Accept("s1")

LinesNotify == \E env \in Envs : Notify("s1", env)

\* the lines a step passed to on_data, in order
LinesFired(callbacks) ==
    LET data == SelectSeq(callbacks, LAMBDA f : f.name = "on_data")
    IN  [i \in 1..Len(data) |-> data[i].line]

\* recv() returns the next k bytes of the stream and the receive loop handles
\* them: dec collects the lines passed to on_data
LinesRead(k, env) ==
    /\ tconn["s1"].receiving
    /\ turn["s1"] = Null
    /\ Install(ReceiveData(World, "s1", SubSeq(wire, 1, k), env))
    /\ dec' = dec \o LinesFired(fired')
    /\ wire' = SubSeq(wire, k + 1, Len(wire))
    /\ fpc' = IF fpc = "stream" /\ k = Len(wire) THEN "whole" ELSE "pieces"
    /\ handled' = [kind |-> "recv", sock |-> "s1", data |-> SubSeq(wire, 1, k)]
    /\ UNCHANGED fr

LinesReadStep == \E k \in 1..Len(wire), env \in Envs : LinesRead(k, env)

NextLines == LinesAccept \/ LinesNotify \/ LinesReadStep

SpecLines == InitLines /\ [][NextLines]_vars

(***************************************************************************)
(* C28: telnet line buffering.  For any stripped byte stream, on_data is   *)
(* fired once per non-empty line, in stream order, where lines are the     *)
(* runs of bytes between consecutive terminators (\r\n, \n or \r, in any   *)
(* mixture); no line passed to on_data contains a \r or \n byte, and bytes *)
(* after the last terminator stay buffered until a terminator arrives.     *)
(***************************************************************************)
\* the runs of bytes between the terminators of s, empty runs included, the
\* run after the last terminator last
RECURSIVE Runs(_, _, _)
Runs(s, i, run) ==
    IF i > Len(s) THEN <<run>>
    ELSE IF s[i] \in {13, 10} THEN <<run>> \o Runs(s, i + 1, <<>>)
    ELSE Runs(s, i + 1, Append(run, s[i]))

\* the lines of a stream and the bytes after its last terminator
StreamLines(s) ==
    LET runs == Runs(s, 1, <<>>)
    IN  SelectSeq(SubSeq(runs, 1, Len(runs) - 1), LAMBDA run : run # <<>>)

StreamRest(s) == Runs(s, 1, <<>>)[Len(Runs(s, 1, <<>>))]

\* the stream has been read to its end
LinesAllRead == fpc # "stream" /\ wire = <<>>

\* the lines passed on are the lines of the stream and hold no terminator, and
\* the rest is buffered
LinesPassed ==
    /\ dec = StreamLines(fr)
    /\ \A i \in 1..Len(dec) : \A j \in 1..Len(dec[i]) : dec[i][j] \notin {13, 10}
    /\ tconn["s1"].buffer = StreamRest(fr)

C28_LineBuffering == LinesAllRead => LinesPassed

\* every terminator of the stream is a CR LF
OnlyCrLf(s) ==
    /\ \A i \in 1..Len(s) : s[i] = 13 => (i < Len(s) /\ s[i + 1] = 10)
    /\ \A i \in 1..Len(s) : s[i] = 10 => (i > 1 /\ s[i - 1] = 13)

\* the terminators of the stream are all of one kind, and no CR LF is cut by
\* the end of a read
OneKindOfTerminator(s) ==
    \/ \A i \in 1..Len(s) : s[i] # 13
    \/ \A i \in 1..Len(s) : s[i] # 10
    \/ OnlyCrLf(s) /\ fpc = "whole"

\* what the code does do: the buffer is split at its first CR LF when it has one
\* anywhere, before any earlier LF or CR is looked at, and a CR at the end of a
\* read ends a line by itself; with one kind of terminator, and no CR LF cut in
\* two, the lines are those of the stream
LinesPassedWithOneTerminator ==
    (LinesAllRead /\ OneKindOfTerminator(fr)) => LinesPassed

\* the order of the stream is kept in any case: the lines passed on, each with
\* the terminators taken out, are the lines of the stream or longer lines made
\* of them, and the bytes passed on and buffered are the text of the stream
TextKeptInOrder ==
    LinesAllRead =>
        SelectSeq(Joined(dec) \o tconn["s1"].buffer, LAMBDA b : b \notin {13, 10})
            = SelectSeq(fr, LAMBDA b : b \notin {13, 10})

\* a CR LF cut by the end of a read has passed a line that holds the LF
CutCrLfPassesLf ==
    /\ LinesAllRead
    /\ fr = <<13, 10, 13, 10>>
    /\ dec = <<<<10>>>>

\* 'A', LF, 'A', CR, LF read at once: on_data has been fired once, with a line
\* that holds the LF
LineWithTerminatorPassed ==
    /\ LinesAllRead
    /\ fr = <<65, 10, 65, 13, 10>>
    /\ dec = <<<<65, 10, 65>>>>

(***************************************************************************)
(* SpecKissStream: the TNC sends a stream of KISS data frames separated by *)
(* one FEND or by more, and the loop of _run calls receive_frame until the *)
(* stream is read.                                                         *)
(***************************************************************************)
\* the most frames of a stream, and the most FEND bytes between two frames
MaxFrames == 2
MaxGap == 3

\* the bytes of the payloads: a data byte and the two bytes the framing escapes
StreamPayloadBytes == {1, FEND, FESC}

StreamPayloads == SeqsUpTo(StreamPayloadBytes, MaxPayload) \ {<<>>}

\* a frame between its FEND bytes: the command byte and the escaped data
KissBody(data, port) == <<port * 16 + DATA_FRAME>> \o KissEscaped(data)

\* n FEND bytes
Fends(n) == [i \in 1..n |-> FEND]

\* the stream of the frames: FEND, the frames with gap FEND bytes between each
\* two, FEND
KissStream(payloads, port, gap) ==
    <<FEND>>
        \o Joined([i \in 1..Len(payloads) |->
                      (IF i > 1 THEN Fends(gap) ELSE <<>>) \o KissBody(payloads[i], port)])
        \o <<FEND>>

InitKissStream ==
    /\ fpc = "stream"
    /\ fr \in [payloads : SeqsUpTo(StreamPayloads, MaxFrames) \ {<<>>},
               port : {0, 1}, gap : 1..MaxGap]
    /\ wire = KissStream(fr.payloads, fr.port, fr.gap)
    /\ dec = <<>>
    /\ ProgIdle

\* receive_frame reads the next frame of the stream; _run handles what is not
\* None: dec collects the frames returned
KissStreamRead ==
    /\ wire # <<>>
    /\ dec' = IF read_kiss_frame(wire).ok THEN Append(dec, read_kiss_frame(wire).data)
              ELSE dec
    /\ wire' = read_kiss_frame(wire).rest
    /\ fpc' = IF read_kiss_frame(wire).rest = <<>> THEN "end" ELSE "reading"
    /\ UNCHANGED fr
    /\ UNCHANGED progVars

NextKissStream == KissStreamRead

SpecKissStream == InitKissStream /\ [][NextKissStream]_vars

(***************************************************************************)
(* C29: KISS stream framing.  For any byte stream consisting of            *)
(* KISS-encoded data frames separated by one or more FEND bytes (a single  *)
(* FEND shared between two frames, or runs of consecutive FENDs, i.e.      *)
(* empty frames), successive read_frame calls return exactly the original  *)
(* payloads in order: empty frames are dropped silently, no frame is       *)
(* skipped, and no command byte or FEND leaks into a returned payload.     *)
(***************************************************************************)
C29_KissStreamFraming == fpc = "end" => dec = fr.payloads

\* what the code does do: a read takes the closing FEND of its frame with it,
\* so the next frame is found only when a FEND of its own opens it; with two
\* FEND bytes between the frames, as _build_kiss_frame writes them, the
\* payloads come back in order
FramedByTwoFends == (fpc = "end" /\ fr.gap = 2) => dec = fr.payloads

\* with one FEND between two frames the second frame is skipped
SharedFendSkipsFrame == (fpc = "end" /\ fr.gap = 1) => dec = <<fr.payloads[1]>>

\* with three FEND bytes between two frames the third is read as the command
\* byte, and the command byte comes back as the first byte of the payload
EmptyFrameLeaksCommand ==
    (fpc = "end" /\ fr.gap = 3 /\ Len(fr.payloads) = 2) =>
        dec = <<fr.payloads[1], <<fr.port * 16 + DATA_FRAME>> \o fr.payloads[2]>>

\* the second of two frames that share a FEND has been lost
SecondFrameSkipped ==
    /\ fpc = "end"
    /\ fr.gap = 1
    /\ Len(fr.payloads) = 2
    /\ dec = <<fr.payloads[1]>>

\* the command byte of port 1 has come back in the payload
CommandByteInPayload ==
    /\ fpc = "end"
    /\ fr.gap = 3
    /\ fr.port = 1
    /\ Len(dec) = 2
    /\ dec[2] = <<16>> \o fr.payloads[2]

(***************************************************************************)
(* SpecIdentity: one telnet client connects and sends, in any order and    *)
(* any number of times, a NEW-ENVIRON answer with the user K0ASM, one with *)
(* the user W1ABC, and the typed lines k0asm and W1ABC; each LLM call      *)
(* returns at any later time.                                              *)
(***************************************************************************)
\* IAC SB NEW-ENVIRON IS VAR "USER" VALUE "W1ABC" IAC SE
EnvUserW1ABC ==
    <<IAC, SB, TELOPT_NEW_ENVIRON, 0, ENV_VAR>> \o ENV_USER \o <<ENV_VALUE>> \o W1ABC
        \o <<IAC, SE>>

\* the NEW-ENVIRON answers of the client
IdentityAnswers == {EnvUserK0ASM, EnvUserW1ABC}

\* the lines the client types, each in a recv() of its own
IdentityLines == {Lower(K0ASM), W1ABC}

\* what one recv() of the client's socket returns
IdentityData == IdentityAnswers \cup {line \o CRLF : line \in IdentityLines}

\* the directory finds every operator and nobody has mail
IdentityEnvs == [qrz : {TRUE}, unread : {0}]

InitIdentity == FrameIdle /\ ProgInit(Sockets)

IdentityAccept == Accept("s1")

IdentityNotify == \E env \in IdentityEnvs : Notify("s1", env)

IdentityRecv == \E data \in IdentityData, env \in IdentityEnvs : Recv("s1", data, env)

IdentityClose == PeerClose("s1")

IdentityLlmReturn ==
    \E result \in LlmResults, env \in IdentityEnvs : TelnetLlmReturn("s1", result, env)

NextIdentity ==
    IdentityAccept \/ IdentityNotify \/ IdentityRecv \/ IdentityClose \/ IdentityLlmReturn

SpecIdentity == InitIdentity /\ [][NextIdentity]_vars

(***************************************************************************)
(* C30: telnet identity mutates at most once.  The identity of a telnet    *)
(* connection (remote_address) starts as ip:port and changes once, to a    *)
(* callsign; once it is a callsign no later NEW-ENVIRON subnegotiation or  *)
(* typed line changes it, and the key of the connection in the server's    *)
(* table is always its identity.                                           *)
(***************************************************************************)
\* the keys under which the server's table holds the connection of socket t
KeysOf(table, t) == {key \in DOMAIN table : table[key] = t}

\* the identity of t is a callsign and stays what it is
IdentityKept(t) ==
    (tconn[t].state = "connected" /\ tconn[t].callsign # <<>>) =>
        TelnetRemoteAddress(tconn'[t]) = TelnetRemoteAddress(tconn[t])

\* the table holds t under its identity and under no other key
KeyFollowsIdentity(t) ==
    tconn[t].state = "connected" => KeysOf(ttable, t) = {TelnetRemoteAddress(tconn[t])}

C30_IdentityOnce ==
    /\ [][\A t \in DOMAIN tconn : IdentityKept(t)]_vars
    /\ [](\A t \in DOMAIN tconn : KeyFollowsIdentity(t))

\* what the code does do: the first identification, typed or by NEW-ENVIRON,
\* moves the table key with the identity
FirstIdentificationRekeys ==
    [][\A t \in DOMAIN tconn :
          ( /\ tconn[t].state = "connected"
            /\ tconn[t].callsign = <<>>
            /\ KeysOf(ttable, t) = {tconn[t].addr}
            /\ tconn'[t].state = "connected" ) =>
              KeysOf(ttable', t) = {TelnetRemoteAddress(tconn'[t])}
    ]_vars

\* a typed line changes no identity that is a callsign already
TypedLineKeepsIdentity ==
    [][\A t \in DOMAIN tconn : \A line \in IdentityLines :
          Received(handled', t, line \o CRLF) => IdentityKept(t)
    ]_vars

\* a NEW-ENVIRON answer always sets the identity to its user, whatever the
\* identity was, and moves the table key only off ip:port
EnvironAlwaysSetsIdentity ==
    [][\A t \in DOMAIN tconn :
          ( /\ Received(handled', t, EnvUserW1ABC)
            /\ tconn[t].state = "connected" ) =>
              /\ tconn'[t].callsign = W1ABC
              /\ (tconn[t].callsign # <<>> => ttable' = ttable)
    ]_vars

\* the identity K0ASM has become W1ABC by a second NEW-ENVIRON answer, and the
\* table still holds the connection under K0ASM
IdentityChangedTwice ==
    \E t \in DOMAIN tconn :
        /\ Received(handled, t, EnvUserW1ABC)
        /\ tconn[t].state = "connected"
        /\ tconn[t].callsign = W1ABC
        /\ KeysOf(ttable, t) = {K0ASM}

\* a callsign typed after the NEW-ENVIRON login has left the identity alone
TypedAfterLoginKept ==
    \E t \in DOMAIN tconn :
        /\ Received(handled, t, W1ABC \o CRLF)
        /\ tconn[t].state = "connected"
        /\ tconn[t].callsign = K0ASM
        /\ KeysOf(ttable, t) = {K0ASM}

(***************************************************************************)
(* SpecUpload: the station W1ABC, connected over AX.25, sends the /upload  *)
(* command and the packets of a YAPP upload in any order: a header with a  *)
(* good name, one whose name is '..', one that declares more bytes than a  *)
(* file may have, and a data block.  The database is empty or holds as     *)
(* many files of W1ABC as one owner may have.                              *)
(***************************************************************************)
\* '..'
FN_DOTS == <<46, 46>>
\* 'big.bin'
FN_BIG == <<98, 105, 103, 46, 98, 105, 110>>

\* the headers the station sends
UploadHeaders ==
    { [filename |-> FN_T_TXT, file_size |-> Len(DATA_HEL), timestamp |-> 0],
      [filename |-> FN_DOTS, file_size |-> Len(DATA_HEL), timestamp |-> 0],
      [filename |-> FN_BIG, file_size |-> MAX_FILE_SIZE + 1, timestamp |-> 0] }

\* the packets the station sends
UploadPackets ==
    {<<YAPP_ENQ>>, <<YAPP_ACK>>, <<YAPP_STX>> \o DATA_HEL}
        \cup {<<YAPP_SOH>> \o HeaderEncode(h) : h \in UploadHeaders}

\* the frames of W1ABC: the connection, the command, and a packet in an I frame
UploadFrames ==
    { Via(create_sabm_frame(W2ASM, W1ABC, 10, 0)),
      IFrame(W2ASM, W1ABC, L_UPLOAD \o <<13>>, 10, 0) }
        \cup {IFrame(W2ASM, W1ABC, p, 10, 0) : p \in UploadPackets}

\* the files table of an owner who has reached MAX_FILES_PER_USER
FullShelf(owner_callsign) ==
    [i \in 1..MAX_FILES_PER_USER |->
        [id |-> i, filename |-> FN_T_TXT, file_data |-> DATA_HEL,
         file_size |-> Len(DATA_HEL), checksum |-> calculate_checksum(DATA_HEL),
         owner_callsign |-> owner_callsign, access_level |-> "private",
         download_count |-> 0]]

InitUpload == FrameIdle /\ \E fs \in {<<>>, FullShelf(W1ABC)} : ProgInitOver({}, fs)

\* the most data blocks of one upload
MaxUploadBlocks == 3

\* the upload that declares more bytes than it sends stays within its bound
UploadBounded == \A who \in DOMAIN transfers : transfers[who].current_block < MaxUploadBlocks

UploadFrame ==
    /\ UploadBounded
    /\ \E f \in UploadFrames, env \in CommandEnvs : KissFrame(f, env)

NextUpload == UploadFrame

SpecUpload == InitUpload /\ [][NextUpload]_vars

(***************************************************************************)
(* C31: upload validation order.  For an upload over AX.25 the owner's     *)
(* quota (file size, file count, total bytes) and the validity of the      *)
(* filename are checked before any YAPP packet is exchanged for it: an     *)
(* upload that will be rejected for quota or filename never gets its       *)
(* header or its data blocks acknowledged.                                 *)
(***************************************************************************)
\* the header of the upload a header or data packet p of the station who belongs to
HeaderOf(ts, who, p) ==
    IF IsHeaderPacket(p) THEN HeaderDecode(Slice(p, 2, BLOCK_SIZE + 1))
    ELSE ts[who].header

\* the packet p is the header, or a data block, of an upload in progress that
\* upload_file will reject
RejectedUploadPacket(fs, ts, who, p) ==
    /\ Has(ts, who)
    /\ ts[who].is_upload
    /\ \/ ts[who].state = "receiving_header" /\ IsHeaderPacket(p)
       \/ ts[who].state = "receiving_data" /\ p[1] = YAPP_STX /\ Len(p) >= 2
    /\ UploadError(fs, HeaderOf(ts, who, p).filename, HeaderOf(ts, who, p).file_size,
                   who) # <<>>

\* the frame handled starts an upload: the /upload command or an ENQ of a
\* connected station that has no transfer
UploadStarts(h, conns, ts) ==
    /\ h.kind = "frame"
    /\ h.decoded
    /\ h.frame.info \in {L_UPLOAD \o <<13>>, <<YAPP_ENQ>>}
    /\ Has(conns, WithSsid(W1ABC, 0))
    /\ conns[WithSsid(W1ABC, 0)].state = "connected"
    /\ ~Has(ts, SenderOf(h.frame))

C31_ValidationBeforeExchange ==
    [][ /\ ( /\ UploadStarts(handled', connections, transfers)
             /\ check_quota(files, SenderOf(handled'.frame), 0) # <<>> ) =>
                <<YAPP_ACK>> \notin Answers(sent')
        /\ ( /\ YappHandled(handled', connections)
             /\ RejectedUploadPacket(files, transfers, SenderOf(handled'.frame),
                                     handled'.frame.info) ) =>
                <<YAPP_ACK>> \notin Answers(sent')
    ]_vars

\* what the code does do: the exchange is the same whatever the name, the
\* declared size and the files of the owner are; every header that decodes is
\* acknowledged, every data block is, and the files table is never looked at
ExchangeIgnoresValidation ==
    [][YappHandled(handled', connections) =>
          LET p == handled'.frame.info
              who == SenderOf(handled'.frame)
          IN  /\ ( /\ Has(transfers, who)
                   /\ transfers[who].state = "receiving_header"
                   /\ IsHeaderPacket(p) ) =>
                      /\ Answers(sent') = {<<YAPP_ACK>>}
                      /\ transfers'[who].state = "receiving_data"
              /\ ( /\ Has(transfers, who)
                   /\ transfers[who].state = "receiving_data"
                   /\ p[1] = YAPP_STX ) =>
                      Answers(sent') = {<<YAPP_ACK>>}
              /\ files' = files
    ]_vars

\* the header named '..' has been acknowledged
BadNameAcknowledged ==
    /\ YappHandled(handled, connections)
    /\ IsHeaderPacket(handled.frame.info)
    /\ Has(transfers, SenderOf(handled.frame))
    /\ transfers[SenderOf(handled.frame)].state = "receiving_data"
    /\ transfers[SenderOf(handled.frame)].header.filename = FN_DOTS
    /\ Answers(sent) = {<<YAPP_ACK>>}

\* the last block of an upload has been acknowledged to an owner who may
\* store no more files
FullOwnerAcknowledged ==
    /\ YappHandled(handled, connections)
    /\ handled.frame.info[1] = YAPP_STX
    /\ get_file_count(files, SenderOf(handled.frame)) >= MAX_FILES_PER_USER
    /\ ~Has(transfers, SenderOf(handled.frame))
    /\ Answers(sent) = {<<YAPP_ACK>>}

(***************************************************************************)
(* SpecShare: the owners share and publish the two files of the database,  *)
(* a private one and a public one of W1ABC, in any order and repeatedly.   *)
(***************************************************************************)
\* the most rows of the file_shares table
MaxShareRows == 2

\* the public file of the earlier run
PublicFile == [StoredFile EXCEPT !.id = 2, !.access_level = "public"]

\* the callsigns a file is shared with, as the callers write them
ShareReaders == {K0ASM, Lower(K0ASM), W2ASM, <<>>}

\* FileManager.share_file
FileManagerShareFile(w, file_id, owner_callsign, shared_with_callsign) ==
    IF shared_with_callsign = <<>> \/ Len(shared_with_callsign) > 10 THEN w
    ELSE share_file(w, file_id, owner_callsign, shared_with_callsign)

InitShare == FrameIdle /\ ProgInitOver({}, <<StoredFile, PublicFile>>)

ShareCall(file_id, owner_callsign, shared_with_callsign) ==
    /\ Len(shares) < MaxShareRows
    /\ Install(FileManagerShareFile(World, file_id, owner_callsign, shared_with_callsign))
    /\ handled' = [kind |-> "share_file", file_id |-> file_id,
                   callsign |-> owner_callsign, shared_with |-> shared_with_callsign]
    /\ UNCHANGED frameVars

ShareCallStep ==
    \E file_id \in 1..3, owner \in FileOwners, cs \in ShareReaders :
        ShareCall(file_id, owner, cs)

PublicCallStep == \E file_id \in 1..3, owner \in FileOwners : SetFilePublic(file_id, owner)

NextShare == ShareCallStep \/ PublicCallStep

SpecShare == InitShare /\ [][NextShare]_vars

(***************************************************************************)
(* C32: share uniqueness.  After any sequence of share_file calls there is *)
(* at most one share row per (file_id, shared_with) pair, and sharing the  *)
(* same file with the same callsign again changes neither the share rows   *)
(* nor the access level of the file.                                       *)
(***************************************************************************)
\* the (file_id, shared_with) pairs of the share rows
SharePairs(sh) == {<<sh[i].file_id, sh[i].shared_with_callsign>> : i \in 1..Len(sh)}

\* the owner shares a file of theirs with a callsign it is shared with already
RepeatedShare(h, fs, sh) ==
    /\ h.kind = "share_file"
    /\ h.shared_with # <<>>
    /\ \E i \in 1..Len(fs) : fs[i].id = h.file_id /\ fs[i].owner_callsign = Upper(h.callsign)
    /\ <<h.file_id, Upper(h.shared_with)>> \in SharePairs(sh)

OneRowPerPair == Cardinality(SharePairs(shares)) = Len(shares)

C32_ShareUniqueness ==
    /\ []OneRowPerPair
    /\ [][RepeatedShare(handled', files, shares) => shares' = shares /\ files' = files]_vars

\* what the code does do: the table has no unique constraint for INSERT OR IGNORE
\* to act on, so every share of an owned file adds a row; a repeat leaves the
\* pairs as they are, and the files too unless the file has been made public
\* since, which the repeat undoes
EveryShareAddsRow ==
    [][ /\ ( /\ handled'.kind = "share_file"
             /\ handled'.shared_with # <<>>
             /\ \E i \in 1..Len(files) :
                    /\ files[i].id = handled'.file_id
                    /\ files[i].owner_callsign = Upper(handled'.callsign) ) =>
                Len(shares') = Len(shares) + 1
        /\ RepeatedShare(handled', files, shares) =>
                /\ SharePairs(shares') = SharePairs(shares)
                /\ \/ files' = files
                   \/ get_file([files |-> files], handled'.file_id).access_level = "public"
    ]_vars

\* the table holds two rows for one pair
DuplicateShareRow ==
    /\ handled.kind = "share_file"
    /\ Len(shares) = 2
    /\ shares[1] = shares[2]

(***************************************************************************)
(* C40: sharing never reduces access.  A share_file call never shrinks the *)
(* set of callsigns for which check_file_access is true; sharing a file    *)
(* that is public with one callsign leaves it accessible to every callsign *)
(* that could access it before.                                            *)
(***************************************************************************)
\* check_file_access over the tables fs and sh
Access(fs, sh, file_id, callsign) ==
    check_file_access([files |-> fs, shares |-> sh], file_id, callsign)

C40_SharingKeepsAccess ==
    [][handled'.kind = "share_file" =>
          \A file_id \in 1..3, cs \in FileCallsigns :
              Access(files, shares, file_id, cs) => Access(files', shares', file_id, cs)
    ]_vars

\* what the code does do: a share of a file that is not public takes nobody's
\* access away, and a share of a public file leaves it to its owner and to the
\* callsigns it is shared with
SharingKeepsAccessUnlessPublic ==
    [][handled'.kind = "share_file" =>
          \A file_id \in 1..3, cs \in FileCallsigns :
              ( /\ Access(files, shares, file_id, cs)
                /\ ~Access(files', shares', file_id, cs) ) =>
                  /\ file_id = handled'.file_id
                  /\ get_file([files |-> files], file_id).access_level = "public"
                  /\ get_file([files |-> files'], file_id).access_level = "shared"
                  /\ <<file_id, Upper(cs)>> \notin SharePairs(shares')
    ]_vars

\* the public file has been shared with K0ASM and W2ASM can read it no more
PublicFileClosed ==
    /\ handled.kind = "share_file"
    /\ handled.file_id = 2
    /\ SharePairs(shares) = {<<2, K0ASM>>}
    /\ ~Access(files, shares, 2, W2ASM)
    /\ Access(files, shares, 2, K0ASM)

(***************************************************************************)
(* SpecQuit: the stations W1ABC and K0ASM-5 connect over AX.25, send the   *)
(* commands help, clear, status and quit, answer the DISC of the program   *)
(* with a UA, and disconnect themselves, in any order.                     *)
(***************************************************************************)
\* the stations, as (callsign, ssid)
QuitStations == {<<W1ABC, 0>>, <<K0ASM, 5>>}

\* the frames of a station; its UA comes over a digipeater or directly, and
\* the direct one, 15 bytes long, is too short for AX25Frame.decode
StationFrames(s) ==
    { Via(create_sabm_frame(W2ASM, s[1], 10, s[2])),
      Via(create_ua_frame(W2ASM, s[1], 10, s[2])),
      create_ua_frame(W2ASM, s[1], 10, s[2]),
      Via(create_disc_frame(W2ASM, s[1], 10, s[2])),
      IFrame(W2ASM, s[1], L_QUIT \o <<13>>, 10, s[2]),
      IFrame(W2ASM, s[1], L_HELP \o <<13>>, 10, s[2]),
      IFrame(W2ASM, s[1], L_CLEAR \o <<13>>, 10, s[2]),
      IFrame(W2ASM, s[1], L_STATUS \o <<13>>, 10, s[2]) }

QuitFrames == UNION {StationFrames(s) : s \in QuitStations}

InitQuit == FrameIdle /\ ProgInit({})

QuitFrame == \E f \in QuitFrames, env \in IdentityEnvs : KissFrame(f, env)

NextQuit == QuitFrame

SpecQuit == InitQuit /\ [][NextQuit]_vars

(***************************************************************************)
(* C33: local disconnect completes.  After the local side has disconnected *)
(* an AX.25 connection (DISC sent, state DISCONNECTING), the receipt of    *)
(* the peer's UA removes the connection from the table and fires           *)
(* on_disconnect exactly once; no payload is sent to the peer after the    *)
(* DISC, and the entry does not stay in DISCONNECTING once the UA has been *)
(* processed.                                                              *)
(***************************************************************************)
\* the key of the sender of a frame in the connection table
KeyOf(f) == WithSsid(Strip(f.source.callsign), f.source.ssid)

\* the frame handled comes from a station whose entry is DISCONNECTING
FromDisconnecting(h, conns) ==
    /\ h.kind = "frame"
    /\ Has(conns, KeyOf(h.frame))
    /\ conns[KeyOf(h.frame)].state = "disconnecting"

\* the callbacks of one name fired in a step
FiredNamed(callbacks, name) == {i \in 1..Len(callbacks) : callbacks[i].name = name}

\* the frames with a payload among the frames sent
HasPayload(f) == f.info # <<>>

C33_LocalDisconnectCompletes ==
    [][FromDisconnecting(handled', connections) =>
          /\ is_ua_frame(handled'.frame) =>
                /\ ~Has(connections', KeyOf(handled'.frame))
                /\ Cardinality(FiredNamed(fired', "on_disconnect")) = 1
          /\ ~is_sabm_frame(handled'.frame) => FramesSent(sent', HasPayload) = {}
    ]_vars

\* what the code does do: the UA of the peer does not decode, or is taken for
\* data on a connection that is not connected, and is dropped; the entry stays
\* as it is, DISCONNECTING, and no callback is fired.  Nothing with a payload
\* goes to the peer
UaDropped ==
    [][FromDisconnecting(handled', connections) =>
          /\ is_ua_frame(handled'.frame) =>
                /\ connections' = connections
                /\ sessions' = sessions
                /\ fired' = <<>>
                /\ sent' = <<>>
          /\ ~is_sabm_frame(handled'.frame) => FramesSent(sent', HasPayload) = {}
    ]_vars

\* only a DISC or a new SABM of the peer takes the entry out of DISCONNECTING
OnlyPeerEndsDisconnecting ==
    [][FromDisconnecting(handled', connections) =>
          \/ is_sabm_frame(handled'.frame)
          \/ is_disc_frame(handled'.frame)
          \/ connections'[KeyOf(handled'.frame)].state = "disconnecting"
    ]_vars

\* the UA of W1ABC has been processed and the entry is DISCONNECTING still
StillDisconnectingAfterUa ==
    /\ handled.kind = "frame"
    /\ handled.decoded
    /\ is_ua_frame(handled.frame)
    /\ KeyOf(handled.frame) = WithSsid(W1ABC, 0)
    /\ Has(connections, WithSsid(W1ABC, 0))
    /\ connections[WithSsid(W1ABC, 0)].state = "disconnecting"
    /\ fired = <<>>

(***************************************************************************)
(* SpecIdle: one station on the AX.25 link that connects and sends lines   *)
(* the program answers itself (help, status) and a line that goes to the   *)
(* model, with time passing and the cleanup thread's pass over the         *)
(* connections and the sessions.                                           *)
(***************************************************************************)
IdleFrames ==
    { Via(create_sabm_frame(W2ASM, W1ABC, 10, 0)),
      IFrame(W2ASM, W1ABC, L_HELP \o <<13>>, 10, 0),
      IFrame(W2ASM, W1ABC, L_STATUS \o <<13>>, 10, 0),
      IFrame(W2ASM, W1ABC, L_HELLO \o <<13>>, 10, 0) }

InitIdle == FrameIdle /\ ProgInit({})

IdleFrame == \E f \in IdleFrames, env \in IdentityEnvs : KissFrame(f, env)

NextIdle == IdleFrame \/ LlmStep \/ TickStep \/ Sweep

SpecIdle == InitIdle /\ [][NextIdle]_vars

\* the key of the session of a connection of the table: its remote_address
SessionOf(conns, key) == Upper(AxRemoteAddress(conns[key]))

\* the session of a key is in the store, authenticated
AuthenticatedIn(ss, skey) == Has(ss, skey) /\ ss[skey].authenticated

\* the connection of a key is in the table, connected, and its session is in
\* the store, authenticated
LiveSession(conns, ss, key) ==
    /\ Has(conns, key)
    /\ conns[key].state = "connected"
    /\ AuthenticatedIn(ss, SessionOf(conns, key))

\* a line of the peer has been answered with the request for a callsign
AskedForCallsign(out) ==
    FramesSent(out, LAMBDA f : Contains(f.info, TXT_INVALID_FORMAT)) # {}

(***************************************************************************)
(* C34: live sessions survive the sweep.  While an authenticated           *)
(* connection stays in its transport table, its session stays in the       *)
(* store, authenticated: the sweep of idle sessions never removes it, and  *)
(* no later line of the peer is taken for a callsign.                      *)
(***************************************************************************)
C34_LiveSessionsSurvive ==
    [][\A key \in DOMAIN connections :
          (LiveSession(connections, sessions, key)
              /\ Has(connections', key) /\ connections'[key].state = "connected") =>
             /\ AuthenticatedIn(sessions', SessionOf(connections', key))
             /\ ~AskedForCallsign(sent')
    ]_vars

\* what the code does do: a line the program answers itself refreshes the
\* last_activity of the connection and leaves that of the session as it was
BuiltinsRefreshOnlyConnection ==
    [][\A key \in DOMAIN connections :
          (/\ LiveSession(connections, sessions, key)
           /\ handled'.kind = "frame"
           /\ handled'.decoded
           /\ KeyOf(handled'.frame) = key
           /\ handled'.frame.info \in {L_HELP \o <<13>>, L_STATUS \o <<13>>}) =>
             /\ connections'[key].idle = 0
             /\ sessions' = sessions
    ]_vars

\* the sweep removes exactly the sessions idle for longer than the timeout and
\* the sessions of the connections it reaps, whatever their connections do
SweepForgetsIdleSessions ==
    [][handled'.kind = "sweep" =>
          \A skey \in DOMAIN sessions :
              Has(sessions', skey) <=>
                  /\ sessions[skey].idle <= CleanupTimeout
                  /\ \A key \in DOMAIN connections :
                         SessionOf(connections, key) = skey =>
                             connections[key].idle <= CleanupTimeout
    ]_vars

\* the session of a station still connected has been swept
SessionSweptUnderStation ==
    /\ handled.kind = "sweep"
    /\ Has(connections, WithSsid(W1ABC, 0))
    /\ connections[WithSsid(W1ABC, 0)].state = "connected"
    /\ ~Has(sessions, W1ABC)

\* the help line of a station connected all along has been taken for a callsign
HelpTakenForCallsign ==
    /\ handled.kind = "frame"
    /\ handled.frame.info = L_HELP \o <<13>>
    /\ AskedForCallsign(sent)
    /\ Has(sessions, W1ABC)
    /\ ~sessions[W1ABC].authenticated

(***************************************************************************)
(* SpecEnviron: one telnet client whose NEW-ENVIRON answer carries the     *)
(* login name of its system, 'root', and who types a callsign and a line   *)
(* for the model; the answer arrives before or after on_connect.           *)
(***************************************************************************)
\* IAC SB NEW-ENVIRON IS VAR "USER" VALUE "root" IAC SE
EnvUserRoot ==
    <<IAC, SB, TELOPT_NEW_ENVIRON, 0, ENV_VAR>> \o ENV_USER \o <<ENV_VALUE>> \o L_ROOT
        \o <<IAC, SE>>

\* what one recv() of the client's socket returns
EnvironData == {EnvUserRoot, W1ABC \o CRLF, L_HELLO \o CRLF}

InitEnviron == FrameIdle /\ ProgInit(Sockets)

EnvironAccept == Accept("s1")

EnvironNotify == \E env \in IdentityEnvs : Notify("s1", env)

EnvironRecv == \E data \in EnvironData, env \in IdentityEnvs : Recv("s1", data, env)

EnvironClose == PeerClose("s1")

EnvironLlmReturn ==
    \E result \in LlmResults, env \in IdentityEnvs : TelnetLlmReturn("s1", result, env)

NextEnviron ==
    EnvironAccept \/ EnvironNotify \/ EnvironRecv \/ EnvironClose \/ EnvironLlmReturn

SpecEnviron == InitEnviron /\ [][NextEnviron]_vars

\* the keys of the authenticated sessions of the store
AuthenticatedKeys == {k \in DOMAIN sessions : sessions[k].authenticated}

\* data sent to a client holds a text
TcpSent(out, text) ==
    \E i \in 1..Len(out) : out[i].kind = "tcp" /\ Contains(out[i].data, text)

(***************************************************************************)
(* C35: the authenticated identity is the validated callsign.  The key of  *)
(* every authenticated session of the store is a well-formed callsign, the *)
(* one that passed the format check and was looked up; a NEW-ENVIRON USER  *)
(* value that is no callsign never is such a key, so the rate limiter      *)
(* never refuses an authenticated user for the format of the callsign.     *)
(***************************************************************************)
C35_AuthenticatedIsValidated ==
    \A k \in AuthenticatedKeys :
        /\ MatchCallsign(k)
        /\ sessions[k].operator_info.call = k
        /\ check_limit(rows, k).reason # TXT_INVALID_FORMAT

\* what the code does do: a callsign typed at the prompt of a connection with no
\* login name is checked, and becomes the key of the session it authenticates
PromptedCallsignValidated ==
    [][(/\ handled'.kind = "recv"
        /\ tconn[handled'.sock].state = "connected"
        /\ tconn[handled'.sock].callsign = <<>>
        /\ tconn'[handled'.sock].callsign # <<>>
        /\ handled'.data # EnvUserRoot) =>
           LET k == tconn'[handled'.sock].callsign
           IN  /\ MatchCallsign(k)
               /\ k \in DOMAIN sessions'
               /\ sessions'[k].authenticated
               /\ sessions'[k].operator_info.call = k
    ]_vars

\* every key of an authenticated session that is no callsign is the login name
InvalidKeyIsLoginName ==
    \A k \in AuthenticatedKeys : MatchCallsign(k) \/ k = Upper(L_ROOT)

\* the session authenticated at on_connect under the login name, unchecked
LoginNameAuthenticated ==
    /\ handled.kind = "on_connect"
    /\ Upper(L_ROOT) \in AuthenticatedKeys
    /\ sessions[Upper(L_ROOT)].operator_info.call = Upper(L_ROOT)

\* the callsign typed after the login name authenticates the session of the
\* login name
TypedCallsignUnderLoginName ==
    /\ handled.kind = "recv"
    /\ handled.data = W1ABC \o CRLF
    /\ Upper(L_ROOT) \in AuthenticatedKeys
    /\ sessions[Upper(L_ROOT)].operator_info.call = W1ABC

\* the line of the authenticated user is refused for the format of the callsign
AuthenticatedUserRefused ==
    /\ handled.kind = "recv"
    /\ handled.data = L_HELLO \o CRLF
    /\ Upper(L_ROOT) \in AuthenticatedKeys
    /\ TcpSent(sent, TXT_INVALID_FORMAT)

\* the connections of the telnet server that are open: CONNECTED, their
\* receive loops running
OpenTelnet == {t \in DOMAIN tconn : tconn[t].state = "connected" /\ tconn[t].receiving}

\* the keys under which the table holds a connection
KeysHolding(table, t) == {k \in DOMAIN table : table[k] = t}

\* the table holds a connection once, under its remote_address
HeldUnderAddress(table, conns, t) ==
    KeysHolding(table, t) = {TelnetRemoteAddress(conns[t])}

\* the on_disconnect callbacks of a step that are those of a connection
DisconnectsOf(callbacks, t) ==
    {i \in FiredNamed(callbacks, "on_disconnect") : callbacks[i].c = TelnetRef(t)}

(***************************************************************************)
(* C36: telnet table consistency.  Every open telnet connection is in the  *)
(* table of the server exactly once, under its current remote_address,     *)
(* also when two connections authenticate with the same callsign; the      *)
(* close of a connection removes its own entry, no other, and fires its    *)
(* own on_disconnect.                                                      *)
(***************************************************************************)
C36_TableConsistent ==
    [][/\ \A t \in OpenTelnet' : HeldUnderAddress(ttable', tconn', t)
       /\ \A t \in OpenTelnet :
             handled'.kind = "close" /\ handled'.sock = t =>
                /\ Cardinality(DisconnectsOf(fired', t)) = 1
                /\ KeysHolding(ttable', t) = {}
                /\ \A u \in OpenTelnet \ {t} : KeysHolding(ttable', u) = KeysHolding(ttable, u)
    ]_vars

\* what the code does do: the table has one entry for each remote_address, held
\* by the connection that took the address last, and a close removes the entry
\* of the address of the connection closed, whoever holds it
LastHolderKeepsEntry ==
    [][/\ \A k \in DOMAIN ttable' :
             TelnetRemoteAddress(tconn'[ttable'[k]]) = k
       /\ \A t \in OpenTelnet :
             handled'.kind = "close" /\ handled'.sock = t =>
                IF Has(ttable, TelnetRemoteAddress(tconn[t]))
                THEN /\ Cardinality(DisconnectsOf(fired', t)) = 1
                     /\ ttable' = Del(ttable, TelnetRemoteAddress(tconn[t]))
                ELSE fired' = <<>> /\ ttable' = ttable
    ]_vars

\* two open connections with the callsign K0ASM, one entry in the table
TwoConnectionsOneEntry ==
    /\ OpenTelnet = Sockets
    /\ \A t \in Sockets : tconn[t].callsign = K0ASM
    /\ DOMAIN ttable = {K0ASM}

\* the close of one connection has removed the entry of the other, open still
ClosedTheOthersEntry ==
    /\ handled.kind = "close"
    /\ \E u \in OpenTelnet :
          /\ u # handled.sock
          /\ tconn[u].callsign = K0ASM
          /\ ttable = EmptyDict

\* the connection left without an entry has closed and no on_disconnect fired
ClosedWithoutCallback ==
    /\ handled.kind = "close"
    /\ tconn[handled.sock].callsign = K0ASM
    /\ tconn[handled.sock].state = "connected"
    /\ fired = <<>>

(***************************************************************************)
(* SpecPairing: two stations on the AX.25 link sending SABM, DISC, UI and  *)
(* I frames in any order, with time passing and the cleanup thread's pass. *)
(***************************************************************************)
PairingFrames ==
    { Via(create_sabm_frame(W2ASM, W1ABC, 10, 0)),
      Via(create_disc_frame(W2ASM, W1ABC, 10, 0)),
      create_ui_frame(W2ASM, W1ABC, L_HELP \o <<13>>, 10, 0),
      IFrame(W2ASM, W1ABC, L_HELP \o <<13>>, 10, 0),
      IFrame(W2ASM, W1ABC, L_STATUS \o <<13>>, 10, 0),
      Via(create_sabm_frame(W2ASM, K0ASM, 10, 5)),
      Via(create_disc_frame(W2ASM, K0ASM, 10, 5)) }

InitPairing == FrameIdle /\ ProgInit({})

PairingFrame == \E f \in PairingFrames, env \in IdentityEnvs : KissFrame(f, env)

NextPairing == PairingFrame \/ TickStep \/ Sweep

SpecPairing == InitPairing /\ [][NextPairing]_vars

\* the callbacks of one name fired in a step for the AX.25 peer of a key
FiredFor(callbacks, name, key) ==
    {i \in FiredNamed(callbacks, name) :
        callbacks[i].c.kind = "ax25" /\ callbacks[i].c.key = key}

\* the peers of the link
PeerKeys == {KeyOf(f) : f \in PairingFrames}

\* the table holds the key: on_connect has fired for it and on_disconnect has
\* not since, for the entries are made by _handle_sabm alone and every removal
\* fires on_disconnect
Outstanding(conns, key) == Has(conns, key)

(***************************************************************************)
(* C37: connect/disconnect pairing.  For every peer key on_connect and     *)
(* on_disconnect alternate, on_connect first, over SABM, DISC, UI and      *)
(* other frames and the idle sweeps: on_connect fires for a key only when  *)
(* none is outstanding, so a SABM of a peer already in the table fires no  *)
(* second one; on_disconnect fires only for a key whose on_connect is      *)
(* outstanding; and a step fires at most one of them for a key.            *)
(***************************************************************************)
C37_ConnectDisconnectPairing ==
    [][\A key \in PeerKeys :
          LET connects == Cardinality(FiredFor(fired', "on_connect", key))
              disconnects == Cardinality(FiredFor(fired', "on_disconnect", key))
          IN  /\ connects + disconnects <= 1
              /\ connects = 1 => ~Outstanding(connections, key)
              /\ disconnects = 1 => Outstanding(connections, key)
    ]_vars

\* what the code does do: every SABM fires on_connect, in the table or not, and
\* leaves the key in the table; on_disconnect fires only for a key of the
\* table, which it leaves; nothing else fires either
PairingButForRepeatedSabm ==
    [][\A key \in PeerKeys :
          LET connects == Cardinality(FiredFor(fired', "on_connect", key))
              disconnects == Cardinality(FiredFor(fired', "on_disconnect", key))
          IN  /\ connects + disconnects <= 1
              /\ connects = 1 <=>
                    /\ handled'.kind = "frame"
                    /\ handled'.decoded
                    /\ is_sabm_frame(handled'.frame)
                    /\ KeyOf(handled'.frame) = key
              /\ connects = 1 => Outstanding(connections', key)
              /\ disconnects = 1 <=>
                    Outstanding(connections, key) /\ ~Outstanding(connections', key)
              /\ connects + disconnects = 0 =>
                    (Outstanding(connections', key) <=> Outstanding(connections, key))
    ]_vars

\* the SABM of a connected peer has fired on_connect a second time
SecondConnect ==
    /\ handled.kind = "frame"
    /\ is_sabm_frame(handled.frame)
    /\ FiredFor(fired, "on_connect", WithSsid(W1ABC, 0)) # {}
    /\ Has(connections, WithSsid(W1ABC, 0))
    /\ connections[WithSsid(W1ABC, 0)].idle = 0
    /\ \E k \in DOMAIN sessions : sessions[k].idle > 0

(***************************************************************************)
(* SpecRace: the threads that call TelnetServer._handle_disconnect for one *)
(* connection, statement by statement: the receive thread (from the        *)
(* finally clause of _receive_loop, and before it from disconnect() when   *)
(* the dispatcher handles an exit word), the cleanup thread (from          *)
(* cleanup_stale_connections) and the main thread (from stop()).  The      *)
(* server takes no lock.  fpc holds the position of each thread, fr        *)
(* whether the receive thread is inside disconnect() with its finally      *)
(* clause still to come, and dec what has happened to the connection.      *)
(***************************************************************************)
RaceThreads == {"receive", "cleanup", "main"}

\* what one recv() of the client's socket returns
RaceData == {EnvUserK0ASM, L_HELP \o CRLF}

\* the positions inside _handle_disconnect, after the test of the table
InsideDisconnect == {"notify", "close", "delete"}

InitRace ==
    /\ fpc = [thr \in RaceThreads |-> "idle"]
    /\ fr = [pending |-> FALSE]
    /\ wire = <<>>
    /\ dec = [on_disconnect |-> 0, deleted |-> 0, key_errors |-> 0, overlapped |-> FALSE]
    /\ ProgInit(Sockets)

RaceAccept == Accept("s1")

RaceNotify == \E env \in IdentityEnvs : Notify("s1", env)

\* recv() returns data while the loop goes on; once the server is stopped or
\* the connection closed the receive thread can only end its loop
RaceRecv ==
    /\ fpc["receive"] = "idle"
    /\ running
    /\ tconn["s1"].state = "connected"
    /\ \E data \in RaceData, env \in IdentityEnvs : Recv("s1", data, env)

\* a step of a thread that changes the program as w says
RaceStep(thr, at, w) ==
    /\ Install(w)
    /\ handled' = [kind |-> "race", thr |-> thr, at |-> at]
    /\ UNCHANGED wire

\* the thread is back from _handle_disconnect: the receive thread inside
\* disconnect() goes on to the end of its loop and the finally clause
DisconnectReturns(thr) ==
    /\ fpc' = [fpc EXCEPT ![thr] = IF thr = "receive" /\ fr.pending THEN "check" ELSE "done"]
    /\ fr' = IF thr = "receive" THEN [pending |-> FALSE] ELSE fr

\* recv() returns b'' or raises, or the test of the loop fails: the finally
\* clause of the receive loop calls _handle_disconnect
ReceiveLoopEnds ==
    /\ fpc["receive"] = "idle"
    /\ tconn["s1"].receiving
    /\ turn["s1"] = Null
    /\ fpc' = [fpc EXCEPT !["receive"] = "check"]
    /\ RaceStep("receive", "finally", [World EXCEPT !.tconn["s1"].receiving = FALSE])
    /\ UNCHANGED <<fr, dec>>

\* the dispatcher handles an exit word of the authenticated client:
\* TelnetServer.disconnect up to its call of _handle_disconnect
DispatcherDisconnect ==
    /\ fpc["receive"] = "idle"
    /\ tconn["s1"].receiving
    /\ turn["s1"] = Null
    /\ Authenticated("s1")
    /\ fpc' = [fpc EXCEPT !["receive"] = "check"]
    /\ fr' = [pending |-> TRUE]
    /\ RaceStep("receive", "disconnect",
                [SendToStation(World, TelnetRef("s1"), TXT_GOODBYE)
                    EXCEPT !.tconn["s1"].state = "disconnecting"])
    /\ UNCHANGED dec

\* cleanup_stale_connections finds the connection stale and calls
\* _handle_disconnect
ReaperStarts ==
    /\ fpc["cleanup"] = "idle"
    /\ running
    /\ \E key \in DOMAIN ttable :
          ttable[key] = "s1" /\ tconn["s1"].idle > CleanupTimeout
    /\ fpc' = [fpc EXCEPT !["cleanup"] = "check"]
    /\ RaceStep("cleanup", "stale", World)
    /\ UNCHANGED <<fr, dec>>

\* TelnetServer.stop: running = False, and _handle_disconnect for the
\* connections of the table
StopStarts ==
    /\ fpc["main"] = "idle"
    /\ running
    /\ fpc' = [fpc EXCEPT !["main"] =
                  IF \E key \in DOMAIN ttable : ttable[key] = "s1" THEN "check" ELSE "done"]
    /\ RaceStep("main", "stop", [World EXCEPT !.running = FALSE])
    /\ UNCHANGED <<fr, dec>>

\* _handle_disconnect: if conn.remote_address in self.connections
DisconnectCheck(thr) ==
    /\ fpc[thr] = "check"
    /\ IF Has(ttable, TelnetRemoteAddress(tconn["s1"]))
       THEN /\ fpc' = [fpc EXCEPT ![thr] = "notify"]
            /\ dec' = [dec EXCEPT !.overlapped =
                          @ \/ \E other \in RaceThreads \ {thr} : fpc[other] \in InsideDisconnect]
            /\ UNCHANGED fr
       ELSE DisconnectReturns(thr) /\ UNCHANGED dec
    /\ RaceStep(thr, "check", World)

\* _handle_disconnect: self.on_disconnect(conn)
DisconnectNotify(thr) ==
    /\ fpc[thr] = "notify"
    /\ fpc' = [fpc EXCEPT ![thr] = "close"]
    /\ dec' = [dec EXCEPT !.on_disconnect = @ + 1]
    /\ RaceStep(thr, "notify",
                OnDisconnect(Fire(World, "on_disconnect", TelnetRef("s1")), TelnetRef("s1")))
    /\ UNCHANGED fr

\* _handle_disconnect: conn.close()
DisconnectClose(thr) ==
    /\ fpc[thr] = "close"
    /\ fpc' = [fpc EXCEPT ![thr] = "delete"]
    /\ RaceStep(thr, "close", [World EXCEPT !.tconn["s1"].state = "disconnected"])
    /\ UNCHANGED <<fr, dec>>

\* _handle_disconnect: del self.connections[conn.remote_address], a KeyError
\* when the key is in the table no more
DisconnectDelete(thr) ==
    /\ fpc[thr] = "delete"
    /\ DisconnectReturns(thr)
    /\ LET key == TelnetRemoteAddress(tconn["s1"])
       IN  IF Has(ttable, key)
           THEN /\ dec' = [dec EXCEPT !.deleted = @ + 1]
                /\ RaceStep(thr, "delete", [World EXCEPT !.ttable = Del(@, key)])
           ELSE /\ dec' = [dec EXCEPT !.key_errors = @ + 1]
                /\ RaceStep(thr, "KeyError", World)

DisconnectStep ==
    \E thr \in RaceThreads :
        \/ DisconnectCheck(thr)
        \/ DisconnectNotify(thr)
        \/ DisconnectClose(thr)
        \/ DisconnectDelete(thr)

NextRace ==
    \/ RaceAccept
    \/ RaceNotify
    \/ RaceRecv
    \/ TickStep
    \/ ReceiveLoopEnds
    \/ DispatcherDisconnect
    \/ ReaperStarts
    \/ StopStarts
    \/ DisconnectStep

SpecRace == InitRace /\ [][NextRace]_vars

(***************************************************************************)
(* C38: the telnet disconnect is free of races.  Under every interleaving  *)
(* of the end of the receive thread, the idle reaper, the dispatcher's     *)
(* disconnect and TelnetServer.stop(), on_disconnect fires at most once    *)
(* for a connection and its entry is removed from the table at most once:  *)
(* no thread deletes a key that is in the table no more.                   *)
(***************************************************************************)
C38_DisconnectRaceFree ==
    /\ dec.on_disconnect <= 1
    /\ dec.deleted <= 1
    /\ dec.key_errors = 0

\* what the code does do: as long as no thread has passed the test of the table
\* while another was between the test and the del, the callback fires once at
\* most and no del fails
SerialDisconnectOnce ==
    ~dec.overlapped => dec.on_disconnect <= 1 /\ dec.key_errors = 0

\* the entry is removed once at most, and the callback fires once for each
\* thread that passed the test
OneRemovalManyCallbacks ==
    /\ dec.deleted <= 1
    /\ dec.on_disconnect <= Cardinality(RaceThreads)
    /\ dec.key_errors < dec.on_disconnect \/ dec.key_errors = 0

\* the sequential case: the dispatcher's disconnect and the finally clause
\* after it, one callback and one removal
QuitThenFinally ==
    /\ fpc["receive"] = "done"
    /\ fpc["cleanup"] = "idle"
    /\ fpc["main"] = "idle"
    /\ tconn["s1"].callsign = K0ASM
    /\ tconn["s1"].state = "disconnected"
    /\ dec = [on_disconnect |-> 1, deleted |-> 1, key_errors |-> 0, overlapped |-> FALSE]
    /\ handled = [kind |-> "race", thr |-> "receive", at |-> "check"]

\* on_disconnect has fired twice for the connection
CallbackTwice == dec.on_disconnect = 2 /\ dec.overlapped

\* a del has found its key gone
SecondDelete ==
    /\ handled.kind = "race"
    /\ handled.at = "KeyError"
    /\ dec.deleted = 1
    /\ dec.key_errors = 1

(***************************************************************************)
(* SpecHistory: the history of one session under a configured              *)
(* max_context_messages, over turns that succeed, turns that fail and      *)
(* clears.  fr holds the configuration and the line of the turn, dec the   *)
(* deque of the session, wire the messages send_message builds.            *)
(***************************************************************************)
\* the largest max_context_messages configured
MaxHistoryLimit == 4

\* the lines of the user that go to the model
HistoryLines == {L_HELLO, L_ROOT, W1ABC}

InitHistory ==
    /\ fpc = "idle"
    /\ fr \in [max_messages : 1..MaxHistoryLimit, line : {<<>>}]
    /\ wire = <<>>
    /\ dec = <<>>
    /\ ProgIdle

\* _on_data reads the history and send_message appends the line of the user
HistorySend ==
    /\ fpc = "idle"
    /\ \E line \in HistoryLines :
          /\ fr' = [fr EXCEPT !.line = line]
          /\ wire' = Append(dec, [role |-> "user", content |-> line])
    /\ fpc' = "create"
    /\ UNCHANGED dec
    /\ UNCHANGED progVars

\* send_message returns a text: add_user_message, add_assistant_message
HistoryReply ==
    /\ fpc = "create"
    /\ dec' = DequeAppend(DequeAppend(dec, [role |-> "user", content |-> fr.line],
                                      fr.max_messages),
                          [role |-> "assistant", content |-> LLM_REPLY], fr.max_messages)
    /\ fpc' = "idle"
    /\ UNCHANGED <<fr, wire>>
    /\ UNCHANGED progVars

\* send_message returns an error: nothing is added
HistoryError ==
    /\ fpc = "create"
    /\ fpc' = "idle"
    /\ UNCHANGED <<fr, wire, dec>>
    /\ UNCHANGED progVars

\* the user sends 'clear': clear_session
HistoryClear ==
    /\ fpc = "idle"
    /\ dec # <<>>
    /\ dec' = <<>>
    /\ UNCHANGED <<fpc, fr, wire>>
    /\ UNCHANGED progVars

NextHistory == HistorySend \/ HistoryReply \/ HistoryError \/ HistoryClear

SpecHistory == InitHistory /\ [][NextHistory]_vars

\* the roles alternate, user first
Alternates(messages) ==
    \A i \in 1..Len(messages) :
        messages[i].role = IF i % 2 = 1 THEN "user" ELSE "assistant"

(***************************************************************************)
(* C39: history role alternation.  For every max_context_messages of 1 or  *)
(* more the stored history of a session alternates roles, user first, also *)
(* after evictions, clears and failed turns; so the messages built for the *)
(* engine, the history and the new line, alternate and end in one user     *)
(* message.                                                                *)
(***************************************************************************)
C39_HistoryAlternates ==
    /\ Alternates(dec)
    /\ fpc = "create" =>
          /\ Alternates(wire)
          /\ wire[Len(wire)].role = "user"

\* what the code does do: with an even max_context_messages the history
\* alternates, user first, and holds whole turns
EvenLimitAlternates ==
    fr.max_messages % 2 = 0 =>
        /\ Alternates(dec)
        /\ Len(dec) % 2 = 0
        /\ fpc = "create" => Alternates(wire)

\* with any limit the roles of neighbours differ and the newest stored message
\* is the assistant's: only the first role can be wrong
NeighboursDiffer ==
    /\ \A i \in 1..(Len(dec) - 1) : dec[i].role # dec[i + 1].role
    /\ dec # <<>> => dec[Len(dec)].role = "assistant"
    /\ Len(dec) <= fr.max_messages

\* a full history under an odd limit starts with the assistant's message
HistoryStartsWithAssistant ==
    /\ fpc = "idle"
    /\ fr.max_messages = 3
    /\ Len(dec) = 3
    /\ dec[1].role = "assistant"

\* the messages built for the engine start with the assistant's message
EngineGetsAssistantFirst ==
    /\ fpc = "create"
    /\ fr.max_messages = 1
    /\ Len(wire) = 2
    /\ wire[1].role = "assistant"
    /\ wire[2].role = "user"

=============================================================================
